---------------------------- MODULE Spec2Model ----------------------------
(***************************************************************************)
(* A model of HotSpot's BitMap (src/hotspot/share/utilities/bitMap.cpp).   *)
(*                                                                         *)
(* A bitmap is its _size (in bits) and its _map, the backing words.  The   *)
(* words are naturals below 2^BitsPerWord and the C operators on them      *)
(* (&, |, ~, ^, <<, >>) are computed arithmetically.  The word geometry is *)
(* scaled down (one byte per word, three bits per byte) so that every      *)
(* storage pattern of a three-word bitmap can be enumerated; every         *)
(* definition is parametric in it.                                         *)
(*                                                                         *)
(* The module also models the race on BitMap::_pop_count_table and         *)
(* G1Policy (gc/g1/g1Policy.hpp) as the controller of the collector's      *)
(* phases.                                                                 *)
(***************************************************************************)
EXTENDS Integers, Sequences, FiniteSets, TLC

VARIABLES
  size,     \* BitMap::_size of the bitmap under test
  map,      \* BitMap::_map, a function from 0 .. size_in_words-1 to words
  other,    \* the _map of the operand of the set-algebra operations
  last,     \* the call that was just made on the bitmap: arguments, the
            \* bitmap before the call, and what the call returned
  thr,      \* per thread: the par_ call it is executing and its locals
  iter,     \* the call of iterate in progress: its arguments and locals,
            \* and the invocations of the closure so far
  tab,      \* BitMap::_pop_count_table, the tables allocated for it, and
            \* the threads that initialise and read it
  pol,      \* G1Policy: the collector state it drives, the collection set
            \* candidates, and the record of its last operation
  unl,      \* ShenandoahUnload: the position of unload(), the steps it has
            \* taken, and the threads that have answered its handshake
  zh,       \* per thread: its call of
            \* ZCollectedHeap::satisfy_failed_metadata_allocation
  cset,     \* the last choice of old regions for a collection set: the
            \* candidates, the budgets and limits, and the counts chosen
  young     \* the last computation of the young list target length: its
            \* inputs and the lengths computed

vars == <<size, map, other, last, thr, iter, tab, pol, unl, zh, cset, young>>

----------------------------------------------------------------------------
(* Word geometry.  The source has 8 bits per byte and sizeof(bm_word_t) = *)
(* 8 bytes per word; the model bounds both.                               *)

BitsPerByte == 3
BytesPerWord == 1
BitsPerWord == BitsPerByte * BytesPerWord

\* The largest bitmap size, in bits, the model allocates.
MaxSize == 7

Word == 0 .. (2^BitsPerWord - 1)
AllOnes == 2^BitsPerWord - 1

MIN2(a, b) == IF a < b THEN a ELSE b

----------------------------------------------------------------------------
(* The C operators on bm_word_t. *)

RECURSIVE AND(_, _)
AND(a, b) ==
  IF a = 0 \/ b = 0 THEN 0
  ELSE (a % 2) * (b % 2) + 2 * AND(a \div 2, b \div 2)

OR(a, b) == a + b - AND(a, b)

XOR(a, b) == a + b - 2 * AND(a, b)

NOT(a) == AllOnes - a

\* a >> n
SHR(a, n) == a \div (2^n)

----------------------------------------------------------------------------
(* Index arithmetic of bitMap.hpp. *)

word_index(bit) == bit \div BitsPerWord

bit_in_word(bit) == bit % BitsPerWord

bit_index(word) == word * BitsPerWord

word_index_round_up(bit) == word_index(bit + (BitsPerWord - 1))

calc_size_in_words(size_in_bits) == word_index(size_in_bits + (BitsPerWord - 1))

bit_mask(bit) == 2^bit_in_word(bit)

\* The words of a map of n words.
WordIdx(n) == 0 .. (n - 1)

Maps(n) == [WordIdx(n) -> Word]

NullMap == [i \in WordIdx(0) |-> 0]

\* BitMap::at: the bit at index, read from the storage.
at(m, index) == AND(m[word_index(index)], bit_mask(index)) # 0

\* A mask with zeros exactly at the positions of [beg, end) in the word
\* that holds beg.
inverted_bit_mask_for_range(beg, end) ==
  LET low == bit_mask(beg) - 1
  IN IF bit_in_word(end) # 0
       THEN OR(low, NOT(bit_mask(end) - 1))
       ELSE low

\* for (i = beg; i < end; i++) map[i] = ~0
set_range_of_words(m, beg, end) ==
  [i \in DOMAIN m |-> IF beg <= i /\ i < end THEN AllOnes ELSE m[i]]

\* for (i = beg; i < end; i++) map[i] = 0
clear_range_of_words(m, beg, end) ==
  [i \in DOMAIN m |-> IF beg <= i /\ i < end THEN 0 ELSE m[i]]

----------------------------------------------------------------------------
(* Allocation. *)

\* reallocate: the maps it can return.  The allocator returns uninitialised
\* words; when there is an old map, MIN2(old, new) words are copied from
\* it; the words past the old size are zeroed when clear is requested;
\* the other words are whatever the allocator returned.
reallocate(old_map, old_size_in_bits, new_size_in_bits, clear) ==
  LET old_size_in_words == calc_size_in_words(old_size_in_bits)
      new_size_in_words == calc_size_in_words(new_size_in_bits)
      copied == IF old_map # NullMap
                  THEN MIN2(old_size_in_words, new_size_in_words) ELSE 0
      cleared == IF clear /\ new_size_in_words > old_size_in_words
                   THEN old_size_in_words .. (new_size_in_words - 1) ELSE {}
      fresh == (copied .. (new_size_in_words - 1)) \ cleared
  IN { [i \in WordIdx(new_size_in_words) |->
          IF i < copied THEN old_map[i]
          ELSE IF i \in cleared THEN 0 ELSE g[i]] : g \in [fresh -> Word] }

\* The outcomes of allocator.allocate(new_size_in_words) when the memory
\* cannot be had: the allocator returns NULL, or it ends the VM
\* (vm_exit_out_of_memory).
AllocationFailures == {"null", "exit"}

\* reallocate when allocator.allocate fails: the result is used unchecked.
\* After an exit nothing is returned.  After NULL, Copy::disjoint_words and
\* clear_range_of_words write through it when they have words to write,
\* which the VM may not survive; otherwise the old map is freed and NULL is
\* returned.
reallocate_failing(old_map, old_size_in_bits, new_size_in_bits, clear, failure) ==
  LET old_size_in_words == calc_size_in_words(old_size_in_bits)
      new_size_in_words == calc_size_in_words(new_size_in_bits)
      writes == \/ old_map # NullMap /\ MIN2(old_size_in_words, new_size_in_words) > 0
                \/ clear /\ new_size_in_words > old_size_in_words
  IN IF failure = "exit" THEN {[exit |-> TRUE, map |-> old_map]}
     ELSE {[exit |-> FALSE, map |-> NullMap]}
          \cup (IF writes THEN {[exit |-> TRUE, map |-> old_map]} ELSE {})

\* BitMap::allocate reuses reallocate with no old map.
allocate(size_in_bits, clear) == reallocate(NullMap, 0, size_in_bits, clear)

----------------------------------------------------------------------------
(* Ranges. *)

set_range_within_word(m, beg, end) ==
  IF beg # end
    THEN LET mask == inverted_bit_mask_for_range(beg, end)
         IN [m EXCEPT ![word_index(beg)] = OR(m[word_index(beg)], NOT(mask))]
    ELSE m

clear_range_within_word(m, beg, end) ==
  IF beg # end
    THEN LET mask == inverted_bit_mask_for_range(beg, end)
         IN [m EXCEPT ![word_index(beg)] = AND(m[word_index(beg)], mask)]
    ELSE m

\* set_range that rounds the end of the whole-word part up, not down.
set_range_rounds_end_up(m, beg, end) ==
  LET beg_full_word == word_index_round_up(beg)
      end_full_word == word_index_round_up(end)
  IN IF beg_full_word < end_full_word
       THEN LET m1 == set_range_within_word(m, beg, bit_index(beg_full_word))
            IN set_range_of_words(m1, beg_full_word, end_full_word)
       ELSE LET boundary == MIN2(bit_index(beg_full_word), end)
                m1 == set_range_within_word(m, beg, boundary)
            IN set_range_within_word(m1, boundary, end)

\* set_range without its partial tail word.
set_range_skips_tail(m, beg, end) ==
  LET beg_full_word == word_index_round_up(beg)
      end_full_word == word_index(end)
  IN IF beg_full_word < end_full_word
       THEN LET m1 == set_range_within_word(m, beg, bit_index(beg_full_word))
            IN set_range_of_words(m1, beg_full_word, end_full_word)
       ELSE LET boundary == MIN2(bit_index(beg_full_word), end)
                m1 == set_range_within_word(m, beg, boundary)
            IN set_range_within_word(m1, boundary, end)

set_range(m, beg, end) ==
  LET beg_full_word == word_index_round_up(beg)
      end_full_word == word_index(end)
  IN IF beg_full_word < end_full_word
       THEN LET m1 == set_range_within_word(m, beg, bit_index(beg_full_word))
                m2 == set_range_of_words(m1, beg_full_word, end_full_word)
            IN set_range_within_word(m2, bit_index(end_full_word), end)
       ELSE LET boundary == MIN2(bit_index(beg_full_word), end)
                m1 == set_range_within_word(m, beg, boundary)
            IN set_range_within_word(m1, boundary, end)

\* clear_range that clears the whole word holding a partial head.
clear_range_whole_head(m, beg, end) ==
  LET beg_full_word == word_index_round_up(beg)
      end_full_word == word_index(end)
  IN IF beg_full_word < end_full_word
       THEN LET m2 == clear_range_of_words(m, word_index(beg), end_full_word)
            IN clear_range_within_word(m2, bit_index(end_full_word), end)
       ELSE LET boundary == MIN2(bit_index(beg_full_word), end)
                m1 == clear_range_within_word(m, beg, boundary)
            IN clear_range_within_word(m1, boundary, end)

clear_range(m, beg, end) ==
  LET beg_full_word == word_index_round_up(beg)
      end_full_word == word_index(end)
  IN IF beg_full_word < end_full_word
       THEN LET m1 == clear_range_within_word(m, beg, bit_index(beg_full_word))
                m2 == clear_range_of_words(m1, beg_full_word, end_full_word)
            IN clear_range_within_word(m2, bit_index(end_full_word), end)
       ELSE LET boundary == MIN2(bit_index(beg_full_word), end)
                m1 == clear_range_within_word(m, beg, boundary)
            IN clear_range_within_word(m1, boundary, end)

----------------------------------------------------------------------------
(* Population count. *)

\* num_set_bits: the two nested loops, one set bit per round of the outer.
RECURSIVE num_set_bits(_)
num_set_bits(w) ==
  IF w = 0 THEN 0
  ELSE IF w % 2 = 0 THEN num_set_bits(w \div 2)
  ELSE 1 + num_set_bits(w \div 2)

\* The table init_pop_count_table builds: one entry per byte value.
pop_count_table == [c \in 0 .. (2^BitsPerByte - 1) |-> num_set_bits(c)]

num_set_bits_from_table(c) == pop_count_table[c]

\* The inner loop of count_one_bits over the bytes j .. sizeof(bm_word_t)-1
\* of w.
RECURSIVE count_bytes(_, _)
count_bytes(w, j) ==
  IF j >= BytesPerWord THEN 0
  ELSE num_set_bits_from_table(w % (2^BitsPerByte))
       + count_bytes(SHR(w, BitsPerByte), j + 1)

\* The outer loop of count_one_bits over the words i .. size_in_words-1.
RECURSIVE count_words(_, _)
count_words(m, i) ==
  IF i \notin DOMAIN m THEN 0
  ELSE count_bytes(m[i], 0) + count_words(m, i + 1)

count_one_bits(m) == count_words(m, 0)

----------------------------------------------------------------------------
(* Large ranges. *)

\* The threshold of is_small_range_of_words, in words; the source asserts
\* it to be at least one, and the model takes the least.
small_range_words == 1

\* A threshold test that sends every range the large way.
is_small_range_never(beg_full_word, end_full_word) == FALSE

is_small_range_of_words(beg_full_word, end_full_word) ==
  beg_full_word + small_range_words >= end_full_word

\* memset(_map + beg, ~0, (end - beg) * sizeof(bm_word_t))
set_large_range_of_words(m, beg, end) ==
  [i \in DOMAIN m |-> IF beg <= i /\ i < end THEN AllOnes ELSE m[i]]

\* memset(_map + beg, 0, (end - beg) * sizeof(bm_word_t))
clear_large_range_of_words(m, beg, end) ==
  [i \in DOMAIN m |-> IF beg <= i /\ i < end THEN 0 ELSE m[i]]

set_large_range(m, beg, end) ==
  LET beg_full_word == word_index_round_up(beg)
      end_full_word == word_index(end)
  IN IF is_small_range_of_words(beg_full_word, end_full_word)
       THEN set_range(m, beg, end)
       ELSE LET m1 == set_range_within_word(m, beg, bit_index(beg_full_word))
                m2 == set_large_range_of_words(m1, beg_full_word, end_full_word)
            IN set_range_within_word(m2, bit_index(end_full_word), end)

clear_large_range(m, beg, end) ==
  LET beg_full_word == word_index_round_up(beg)
      end_full_word == word_index(end)
  IN IF is_small_range_of_words(beg_full_word, end_full_word)
       THEN clear_range(m, beg, end)
       ELSE LET m1 == clear_range_within_word(m, beg, bit_index(beg_full_word))
                m2 == clear_large_range_of_words(m1, beg_full_word, end_full_word)
            IN clear_range_within_word(m2, bit_index(end_full_word), end)

\* The words a call reads or writes.  set_range_within_word,
\* clear_range_within_word and par_put_range_within_word touch
\* *word_addr(beg), and only when beg != end.
within_word_accesses_untested(beg, end) == {word_index(beg)}

within_word_accesses(beg, end) ==
  IF beg # end THEN {word_index(beg)} ELSE {}

\* set_range_of_words, clear_range_of_words and the memset of the large
\* variants touch the words beg .. end - 1.
range_of_words_accesses(beg, end) == {i \in beg .. end : i < end}

\* set_range, clear_range and par_at_put_range: the partial head word, the
\* full words and the partial tail word, or the one or two words of a
\* range with no full word.
range_accesses(beg, end) ==
  LET beg_full_word == word_index_round_up(beg)
      end_full_word == word_index(end)
  IN IF beg_full_word < end_full_word
       THEN within_word_accesses(beg, bit_index(beg_full_word))
            \cup range_of_words_accesses(beg_full_word, end_full_word)
            \cup within_word_accesses(bit_index(end_full_word), end)
       ELSE LET boundary == MIN2(bit_index(beg_full_word), end)
            IN within_word_accesses(beg, boundary)
               \cup within_word_accesses(boundary, end)

\* set_large_range, clear_large_range and par_at_put_large_range.
large_range_accesses(beg, end) ==
  LET beg_full_word == word_index_round_up(beg)
      end_full_word == word_index(end)
  IN IF is_small_range_of_words(beg_full_word, end_full_word)
       THEN range_accesses(beg, end)
       ELSE within_word_accesses(beg, bit_index(beg_full_word))
            \cup range_of_words_accesses(beg_full_word, end_full_word)
            \cup within_word_accesses(bit_index(end_full_word), end)

at_put_range(m, start_offset, end_offset, value) ==
  IF value THEN set_range(m, start_offset, end_offset)
  ELSE clear_range(m, start_offset, end_offset)

at_put_large_range(m, beg, end, value) ==
  IF value THEN set_large_range(m, beg, end)
  ELSE clear_large_range(m, beg, end)

----------------------------------------------------------------------------
(* Atomic range writes, as one uncontended call.  The word a              *)
(* compare-and-swap of par_put_range_within_word installs is par_new_word *)
(* of the word it read.                                                   *)

\* par_new_word with the two cases swapped.
par_new_word_swapped(w, mr, value) ==
  IF value THEN AND(w, mr) ELSE OR(w, NOT(mr))

par_new_word(w, mr, value) == IF value THEN OR(w, NOT(mr)) ELSE AND(w, mr)

\* With no other writer the first cmpxchg succeeds.
par_put_range_within_word(m, beg, end, value) ==
  IF beg # end
    THEN LET mr == inverted_bit_mask_for_range(beg, end)
         IN [m EXCEPT ![word_index(beg)] =
                        par_new_word(m[word_index(beg)], mr, value)]
    ELSE m

par_at_put_range(m, beg, end, value) ==
  LET beg_full_word == word_index_round_up(beg)
      end_full_word == word_index(end)
  IN IF beg_full_word < end_full_word
       THEN LET m1 == par_put_range_within_word(m, beg, bit_index(beg_full_word), value)
                m2 == IF value
                        THEN set_range_of_words(m1, beg_full_word, end_full_word)
                        ELSE clear_range_of_words(m1, beg_full_word, end_full_word)
            IN par_put_range_within_word(m2, bit_index(end_full_word), end, value)
       ELSE LET boundary == MIN2(bit_index(beg_full_word), end)
                m1 == par_put_range_within_word(m, beg, boundary, value)
            IN par_put_range_within_word(m1, boundary, end, value)

par_at_put_large_range(m, beg, end, value) ==
  LET beg_full_word == word_index_round_up(beg)
      end_full_word == word_index(end)
  IN IF is_small_range_of_words(beg_full_word, end_full_word)
       THEN par_at_put_range(m, beg, end, value)
       ELSE LET m1 == par_put_range_within_word(m, beg, bit_index(beg_full_word), value)
                m2 == IF value
                        THEN set_large_range_of_words(m1, beg_full_word, end_full_word)
                        ELSE clear_large_range_of_words(m1, beg_full_word, end_full_word)
            IN par_put_range_within_word(m2, bit_index(end_full_word), end, value)

----------------------------------------------------------------------------
(* Whole-bitmap queries and set algebra on two maps of the same size sz.   *)

tail_mask(tail_bits) == 2^tail_bits - 1

tail_of_map(value, tail_bits) == AND(value, tail_mask(tail_bits))

merge_tail_of_map(new_value, old_value, tail_bits) ==
  LET mask == tail_mask(tail_bits)
  IN OR(AND(new_value, mask), AND(old_value, NOT(mask)))

\* contains that never looks at the partial tail word.
contains_ignores_tail(dest_map, other_map, sz) ==
  \A index \in 0 .. (word_index(sz) - 1) :
     AND(NOT(dest_map[index]), other_map[index]) = 0

contains(dest_map, other_map, sz) ==
  LET limit == word_index(sz)
      rest == bit_in_word(sz)
  IN IF \E index \in 0 .. (limit - 1) :
          AND(NOT(dest_map[index]), other_map[index]) # 0
       THEN FALSE
       ELSE rest = 0
            \/ tail_of_map(AND(NOT(dest_map[limit]), other_map[limit]), rest) = 0

intersects(dest_map, other_map, sz) ==
  LET limit == word_index(sz)
      rest == bit_in_word(sz)
  IN IF \E index \in 0 .. (limit - 1) :
          AND(dest_map[index], other_map[index]) # 0
       THEN TRUE
       ELSE rest > 0
            /\ tail_of_map(AND(dest_map[limit], other_map[limit]), rest) # 0

is_same(dest_map, other_map, sz) ==
  LET limit == word_index(sz)
      rest == bit_in_word(sz)
  IN IF \E index \in 0 .. (limit - 1) : dest_map[index] # other_map[index]
       THEN FALSE
       ELSE rest = 0
            \/ tail_of_map(XOR(dest_map[limit], other_map[limit]), rest) = 0

\* is_empty that tests the whole partial tail word.
is_empty_unmasked_tail(words, sz) ==
  LET limit == word_index(sz)
      rest == bit_in_word(sz)
  IN IF \E index \in 0 .. (limit - 1) : words[index] # 0
       THEN FALSE
       ELSE rest = 0 \/ words[limit] = 0

is_full(words, sz) ==
  LET limit == word_index(sz)
      rest == bit_in_word(sz)
  IN IF \E index \in 0 .. (limit - 1) : NOT(words[index]) # 0
       THEN FALSE
       ELSE rest = 0 \/ tail_of_map(NOT(words[limit]), rest) = 0

is_empty(words, sz) ==
  LET limit == word_index(sz)
      rest == bit_in_word(sz)
  IN IF \E index \in 0 .. (limit - 1) : words[index] # 0
       THEN FALSE
       ELSE rest = 0 \/ tail_of_map(words[limit], rest) = 0

\* The words the five queries read at most: those of the loop over
\* 0 .. limit-1 and, only when rest is not 0, the word at limit.
query_words(sz) ==
  LET limit == word_index(sz)
      rest == bit_in_word(sz)
  IN (0 .. (limit - 1)) \cup (IF rest = 0 THEN {} ELSE {limit})

\* set_union that leaves the partial tail word as it was.
set_union_skips_tail(dest_map, other_map, sz) ==
  [index \in DOMAIN dest_map |->
     IF index < word_index(sz) THEN OR(dest_map[index], other_map[index])
     ELSE dest_map[index]]

set_union(dest_map, other_map, sz) ==
  LET limit == word_index(sz)
      rest == bit_in_word(sz)
  IN [index \in DOMAIN dest_map |->
        IF index < limit THEN OR(dest_map[index], other_map[index])
        ELSE IF rest > 0
          THEN LET orig == dest_map[limit]
               IN merge_tail_of_map(OR(orig, other_map[limit]), orig, rest)
          ELSE dest_map[index]]

set_difference(dest_map, other_map, sz) ==
  LET limit == word_index(sz)
      rest == bit_in_word(sz)
  IN [index \in DOMAIN dest_map |->
        IF index < limit THEN AND(dest_map[index], NOT(other_map[index]))
        ELSE IF rest > 0
          THEN LET orig == dest_map[limit]
               IN merge_tail_of_map(AND(orig, NOT(other_map[limit])), orig, rest)
          ELSE dest_map[index]]

set_intersection(dest_map, other_map, sz) ==
  LET limit == word_index(sz)
      rest == bit_in_word(sz)
  IN [index \in DOMAIN dest_map |->
        IF index < limit THEN AND(dest_map[index], other_map[index])
        ELSE IF rest > 0
          THEN LET orig == dest_map[limit]
               IN merge_tail_of_map(AND(orig, other_map[limit]), orig, rest)
          ELSE dest_map[index]]

\* The result-reporting set algebra: the map it leaves and what it returns.
\* changed is the disjunction of temp != orig over the words written.

\* set_union_with_result that compares the tail word before merging it.
set_union_with_result_raw_tail(dest_map, other_map, sz) ==
  LET limit == word_index(sz)
      rest == bit_in_word(sz)
      temp(index) == OR(dest_map[index], other_map[index])
      written == (0 .. (limit - 1)) \cup (IF rest > 0 THEN {limit} ELSE {})
  IN [map |-> set_union(dest_map, other_map, sz),
      changed |-> \E index \in written : temp(index) # dest_map[index]]

set_union_with_result(dest_map, other_map, sz) ==
  LET limit == word_index(sz)
      rest == bit_in_word(sz)
      temp(index) ==
        LET orig == dest_map[index]
        IN IF index < limit THEN OR(orig, other_map[index])
           ELSE merge_tail_of_map(OR(orig, other_map[index]), orig, rest)
      written == (0 .. (limit - 1)) \cup (IF rest > 0 THEN {limit} ELSE {})
  IN [map |-> [index \in DOMAIN dest_map |->
                 IF index \in written THEN temp(index) ELSE dest_map[index]],
      changed |-> \E index \in written : temp(index) # dest_map[index]]

set_difference_with_result(dest_map, other_map, sz) ==
  LET limit == word_index(sz)
      rest == bit_in_word(sz)
      temp(index) ==
        LET orig == dest_map[index]
        IN IF index < limit THEN AND(orig, NOT(other_map[index]))
           ELSE merge_tail_of_map(AND(orig, NOT(other_map[index])), orig, rest)
      written == (0 .. (limit - 1)) \cup (IF rest > 0 THEN {limit} ELSE {})
  IN [map |-> [index \in DOMAIN dest_map |->
                 IF index \in written THEN temp(index) ELSE dest_map[index]],
      changed |-> \E index \in written : temp(index) # dest_map[index]]

set_intersection_with_result(dest_map, other_map, sz) ==
  LET limit == word_index(sz)
      rest == bit_in_word(sz)
      temp(index) ==
        LET orig == dest_map[index]
        IN IF index < limit THEN AND(orig, other_map[index])
           ELSE merge_tail_of_map(AND(orig, other_map[index]), orig, rest)
      written == (0 .. (limit - 1)) \cup (IF rest > 0 THEN {limit} ELSE {})
  IN [map |-> [index \in DOMAIN dest_map |->
                 IF index \in written THEN temp(index) ELSE dest_map[index]],
      changed |-> \E index \in written : temp(index) # dest_map[index]]

\* set_from that copies the last word whole.
set_from_copies_tail_word(dest_map, other_map, sz) ==
  [index \in DOMAIN dest_map |-> other_map[index]]

set_from(dest_map, other_map, sz) ==
  LET copy_words == word_index(sz)
      rest == bit_in_word(sz)
  IN [index \in DOMAIN dest_map |->
        IF index < copy_words THEN other_map[index]
        ELSE IF rest > 0
          THEN merge_tail_of_map(other_map[copy_words], dest_map[copy_words], rest)
          ELSE dest_map[index]]

----------------------------------------------------------------------------
(* The calls on one bitmap, each a whole call.  A call is made when the    *)
(* previous one has returned; Return forgets the record of the call.       *)

\* The largest size of the two bitmaps of the set-algebra specification.
MaxAlgSize == 4

NoCall ==
  [op |-> "none", beg |-> 0, end |-> 0, value |-> FALSE,
   pre_size |-> 0, pre_map |-> NullMap, operand |-> NullMap,
   count |-> 0, ret |-> FALSE]

\* The record of a call: value is the clear or value argument, operand the
\* map of the other bitmap passed, count and ret what the call returned.
Call(op, beg, end, value, operand, count, ret) ==
  [op |-> op, beg |-> beg, end |-> end, value |-> value,
   pre_size |-> size, pre_map |-> map, operand |-> operand,
   count |-> count, ret |-> ret]

Idle == last.op = "none"

\* G1Policy after init: young-only, no marking requested, no candidates.
\* state is the phase; initiate_conc_mark_if_possible the flag that requests
\* a marking cycle; in_pause whether an evacuation pause is under way;
\* candidates the length of the collection set candidates; mixed_pauses
\* the mixed pauses of the current mixed phase; abandoned whether
\* abort_time_to_mixed_tracking was called since the last arming.  The
\* record of the run: armings and cycles count the requests made and the
\* marking cycles started, empty_mark tells that the last mark completed
\* with no candidates and no marking was requested since, op, pre and ret
\* are the last operation, the state before it and what it returned,
\* crossing whether the last pause end found the occupancy over the
\* threshold, before the controller as it was before the last operation,
\* and aborted tells that a marking was aborted and none requested since.
NoPolicy ==
  [state |-> "YoungOnly", initiate_conc_mark_if_possible |-> FALSE,
   in_pause |-> FALSE, candidates |-> 0, mixed_pauses |-> 0,
   abandoned |-> FALSE, armings |-> 0, cycles |-> 0, empty_mark |-> FALSE,
   op |-> "none", pre |-> "YoungOnly", ret |-> FALSE, crossing |-> FALSE,
   before |-> <<"YoungOnly", FALSE, 0, 0, FALSE>>, aborted |-> FALSE]

\* ShenandoahUnload with no unload() under way.  pc is the step unload()
\* is about to take; evacuation is ShenandoahHeap::is_evacuation_in_progress;
\* cleaning tells that DependencyContext::cleaning_start was called and
\* cleaning_end not yet; unloading_occurred is the local of unlink(); acked
\* the threads that have executed the handshake closure; log the steps the
\* current call has taken; entered the flags as the call found them; cycle
\* CodeCache's unloading cycle.
NoUnload ==
  [pc |-> "idle", evacuation |-> FALSE, cleaning |-> FALSE,
   unloading_occurred |-> FALSE, acked |-> {}, log |-> <<>>,
   entered |-> <<FALSE, FALSE>>, cycle |-> 0]

\* No thread is in satisfy_failed_metadata_allocation.
NoMetaCalls == <<>>

\* No old regions have been chosen yet.
NoCSet == [op |-> "none"]

\* No young list target length has been computed yet.
NoYoung == [op |-> "none"]

\* _pop_count_table is NULL, no table is allocated, no thread is running.
NoTable == [ptr |-> 0, heap |-> <<>>, pc |-> <<>>, op |-> <<>>]

\* No call of iterate in progress.  Of a call: its arguments (left,
\* right), its locals (index, offset, rest), what it returned (ret), the
\* bits the closure was invoked on, in order (visited), the bits of the
\* range that were set at the call (pre) and those the scan is due to
\* visit (due), the invocation at which the closure first returned false
\* (refused, 0 when it has not), and whether the closure has changed the
\* bitmap (mutated).
NoIterate ==
  [pc |-> "idle", left |-> 0, right |-> 0, index |-> 0, offset |-> 0,
   rest |-> 0, visited |-> <<>>, pre |-> {}, due |-> {}, refused |-> 0,
   mutated |-> FALSE, ret |-> FALSE]

\* The states a constructor leaves: CHeapBitMap(size_in_bits, flags, clear).
Constructed(max, clears) ==
  /\ size \in 0 .. max
  /\ \E clear \in clears : map \in allocate(size, clear)
  /\ last = NoCall
  /\ thr = <<>>
  /\ iter = NoIterate
  /\ tab = NoTable
  /\ pol = NoPolicy
  /\ unl = NoUnload
  /\ zh = NoMetaCalls
  /\ cset = NoCSet
  /\ young = NoYoung

\* CHeapBitMap::resize(new_size_in_bits, clear): reallocate, then update.
Resize(clears) ==
  /\ Idle
  /\ \E new_size_in_bits \in 0 .. MaxSize, clear \in clears :
       /\ map' \in reallocate(map, size, new_size_in_bits, clear)
       /\ size' = new_size_in_bits
       /\ last' = Call("resize", 0, new_size_in_bits, clear, NullMap, 0, FALSE)
  /\ UNCHANGED <<other, thr, iter, tab, pol, unl, zh, cset, young>>

\* CHeapBitMap::resize(new_size_in_bits, clear) when the allocation of the
\* new storage fails: resize takes what reallocate returns and updates the
\* bitmap with it; it returns nothing, so no failure is reported (ret).
ResizeOom(clears) ==
  /\ Idle
  /\ \E new_size_in_bits \in 1 .. MaxSize, clear \in clears,
        failure \in AllocationFailures :
       \E r \in reallocate_failing(map, size, new_size_in_bits, clear, failure) :
          IF r.exit
            THEN /\ UNCHANGED <<size, map, pol, unl, zh, cset, young>>
                 /\ last' = Call("vm_exit", 0, new_size_in_bits, clear,
                                 NullMap, 0, FALSE)
            ELSE /\ map' = r.map
                 /\ size' = new_size_in_bits
                 /\ last' = Call("resize_oom", 0, new_size_in_bits, clear,
                                 NullMap, 0, FALSE)
  /\ UNCHANGED <<other, thr, iter, tab, pol, unl, zh, cset, young>>

\* verify_range: beg <= end, and end is an index or the size.
ValidRange(beg, end) == beg <= end /\ end <= size

\* A call on a range that returns nothing: new_map(beg, end) is the map it
\* leaves.
RangeCall(op, value, new_map(_, _)) ==
  /\ Idle
  /\ \E beg \in 0 .. size, end \in 0 .. size :
       /\ ValidRange(beg, end)
       /\ map' = new_map(beg, end)
       /\ last' = Call(op, beg, end, value, NullMap, 0, FALSE)
  /\ UNCHANGED <<size, other, thr, iter, tab, pol, unl, zh, cset, young>>

SetRange ==
  LET new_map(beg, end) == set_range(map, beg, end)
  IN RangeCall("set_range", TRUE, new_map)

ClearRange ==
  LET new_map(beg, end) == clear_range(map, beg, end)
  IN RangeCall("clear_range", FALSE, new_map)

\* clear_range(beg, end) right after set_range(beg, end), on the same range.
ClearRangeAfterSet ==
  /\ last.op = "set_range"
  /\ map' = clear_range(map, last.beg, last.end)
  /\ last' = [last EXCEPT !.op = "set_range;clear_range"]
  /\ UNCHANGED <<size, other, thr, iter, tab, pol, unl, zh, cset, young>>

SetLargeRange ==
  LET new_map(beg, end) == set_large_range(map, beg, end)
  IN RangeCall("set_large_range", TRUE, new_map)

ClearLargeRange ==
  LET new_map(beg, end) == clear_large_range(map, beg, end)
  IN RangeCall("clear_large_range", FALSE, new_map)

AtPutRange ==
  \E value \in BOOLEAN :
    LET new_map(beg, end) == at_put_range(map, beg, end, value)
    IN RangeCall("at_put_range", value, new_map)

AtPutLargeRange ==
  \E value \in BOOLEAN :
    LET new_map(beg, end) == at_put_large_range(map, beg, end, value)
    IN RangeCall("at_put_large_range", value, new_map)

ParAtPutRange ==
  \E value \in BOOLEAN :
    LET new_map(beg, end) == par_at_put_range(map, beg, end, value)
    IN RangeCall("par_at_put_range", value, new_map)

ParAtPutLargeRange ==
  \E value \in BOOLEAN :
    LET new_map(beg, end) == par_at_put_large_range(map, beg, end, value)
    IN RangeCall("par_at_put_large_range", value, new_map)

CountOneBits ==
  /\ Idle
  /\ last' = Call("count_one_bits", 0, 0, FALSE, NullMap, count_one_bits(map), FALSE)
  /\ UNCHANGED <<size, map, other, thr, iter, tab, pol, unl, zh, cset, young>>

\* The operands the single-bitmap specifications pass to the set algebra:
\* maps of the bitmap's size with every word the same.
OperandWords == {0, 1, AllOnes - 1, AllOnes}

Operands == {[i \in DOMAIN map |-> w] : w \in OperandWords}

\* A call dest.op(operand) that returns nothing.
AlgebraCall(op, operands, new_map(_)) ==
  /\ Idle
  /\ \E o \in operands :
       /\ map' = new_map(o)
       /\ last' = Call(op, 0, 0, FALSE, o, 0, FALSE)
  /\ UNCHANGED <<size, other, thr, iter, tab, pol, unl, zh, cset, young>>

SetUnion(operands) ==
  LET new_map(o) == set_union(map, o, size)
  IN AlgebraCall("set_union", operands, new_map)

SetIntersection(operands) ==
  LET new_map(o) == set_intersection(map, o, size)
  IN AlgebraCall("set_intersection", operands, new_map)

SetDifference(operands) ==
  LET new_map(o) == set_difference(map, o, size)
  IN AlgebraCall("set_difference", operands, new_map)

SetFrom(operands) ==
  LET new_map(o) == set_from(map, o, size)
  IN AlgebraCall("set_from", operands, new_map)

\* A call dest.op(other) that returns whether it changed dest.
ResultCall(op, r) ==
  /\ Idle
  /\ map' = r.map
  /\ last' = Call(op, 0, 0, FALSE, other, 0, r.changed)
  /\ UNCHANGED <<size, other, thr, iter, tab, pol, unl, zh, cset, young>>

SetUnionWithResult ==
  ResultCall("set_union_with_result", set_union_with_result(map, other, size))

SetDifferenceWithResult ==
  ResultCall("set_difference_with_result",
             set_difference_with_result(map, other, size))

SetIntersectionWithResult ==
  ResultCall("set_intersection_with_result",
             set_intersection_with_result(map, other, size))

\* A query dest.op(other) on the two bitmaps.
Query(op, result) ==
  /\ Idle
  /\ last' = Call(op, 0, 0, FALSE, other, 0, result)
  /\ UNCHANGED <<size, map, other, thr, iter, tab, pol, unl, zh, cset, young>>

Contains == Query("contains", contains(map, other, size))

Intersects == Query("intersects", intersects(map, other, size))

IsSame == Query("is_same", is_same(map, other, size))

IsFull == Query("is_full", is_full(map, size))

IsEmpty == Query("is_empty", is_empty(map, size))

\* The call returns to its caller, unless the VM has exited.
Return ==
  /\ ~Idle
  /\ last.op # "vm_exit"
  /\ last' = NoCall
  /\ UNCHANGED <<size, map, other, thr, iter, tab, pol, unl, zh, cset, young>>

----------------------------------------------------------------------------
(* Spec: one bitmap, constructed and resized with or without clearing.     *)

Init ==
  /\ Constructed(MaxSize, BOOLEAN)
  /\ other = NullMap

Next ==
  \/ Resize(BOOLEAN)
  \/ SetRange
  \/ ClearRange
  \/ ClearRangeAfterSet
  \/ CountOneBits
  \/ Return

Spec == Init /\ [][Next]_vars

----------------------------------------------------------------------------
(* SpecOom: one bitmap, resized with allocations that succeed or fail.     *)

NextOom ==
  \/ Resize({TRUE})
  \/ ResizeOom(BOOLEAN)
  \/ Return

SpecOom == Init /\ [][NextOom]_vars

----------------------------------------------------------------------------
(* SpecClear: one bitmap, always constructed and resized with clear=true,  *)
(* under every operation that writes it.                                   *)

InitClear ==
  /\ Constructed(MaxSize, {TRUE})
  /\ other = NullMap

NextClear ==
  \/ Resize({TRUE})
  \/ SetRange
  \/ ClearRange
  \/ SetLargeRange
  \/ ClearLargeRange
  \/ ParAtPutRange
  \/ ParAtPutLargeRange
  \/ SetUnion(Operands)
  \/ SetIntersection(Operands)
  \/ SetDifference(Operands)
  \/ SetFrom(Operands)
  \/ CountOneBits
  \/ Return

SpecClear == InitClear /\ [][NextClear]_vars

----------------------------------------------------------------------------
(* SpecLarge: the range writes and their large variants on one bitmap     *)
(* long enough for a range past the small-range threshold to have a       *)
(* partial head word and a partial tail word.  One call is made on each   *)
(* bitmap.                                                                *)

\* The largest size of the bitmap of SpecLarge.
MaxLargeSize == 10

\* The bitmap as allocated without clearing, each word of the storage
\* holding one of the operand patterns.
InitLarge ==
  /\ size \in 0 .. MaxLargeSize
  /\ map \in [WordIdx(calc_size_in_words(size)) -> OperandWords]
  /\ other = NullMap
  /\ last = NoCall
  /\ thr = <<>>
  /\ iter = NoIterate
  /\ tab = NoTable
  /\ pol = NoPolicy
  /\ unl = NoUnload
  /\ zh = NoMetaCalls
  /\ cset = NoCSet
  /\ young = NoYoung

NextLarge ==
  \/ SetLargeRange
  \/ ClearLargeRange
  \/ AtPutRange
  \/ AtPutLargeRange

SpecLarge == InitLarge /\ [][NextLarge]_vars

----------------------------------------------------------------------------
(* SpecRange: every range write, plain, atomic and large, on the bitmaps   *)
(* of SpecLarge.  One call is made on each bitmap.                         *)

NextRange ==
  \/ SetRange
  \/ ClearRange
  \/ ParAtPutRange
  \/ SetLargeRange
  \/ ClearLargeRange
  \/ ParAtPutLargeRange

SpecRange == InitLarge /\ [][NextRange]_vars

----------------------------------------------------------------------------
(* SpecAlg: two bitmaps of the same size, every pair of storage patterns.  *)

InitAlg ==
  /\ Constructed(MaxAlgSize, BOOLEAN)
  /\ \E clear \in BOOLEAN : other \in allocate(size, clear)

NextAlg ==
  \/ Contains
  \/ Intersects
  \/ IsSame
  \/ SetUnion({other})
  \/ SetIntersection({other})
  \/ SetDifference({other})
  \/ SetFrom({other})
  \/ Return

SpecAlg == InitAlg /\ [][NextAlg]_vars

----------------------------------------------------------------------------
(* SpecResult: the result-reporting set algebra on two bitmaps of the same *)
(* size, every pair of storage patterns.  One call is made on each pair.   *)

NextResult ==
  \/ SetUnionWithResult
  \/ SetDifferenceWithResult
  \/ SetIntersectionWithResult

SpecResult == InitAlg /\ [][NextResult]_vars

----------------------------------------------------------------------------
(* SpecFrame: every set-algebra operation that writes, on two bitmaps of   *)
(* the same size.  One call is made on each pair.                          *)

\* The destination as a constructor leaves it; each word of the operand
\* holds one of the operand patterns.
InitFrame ==
  /\ Constructed(MaxAlgSize, BOOLEAN)
  /\ other \in [DOMAIN map -> OperandWords]

NextFrame ==
  \/ SetUnion({other})
  \/ SetIntersection({other})
  \/ SetDifference({other})
  \/ SetFrom({other})
  \/ SetUnionWithResult
  \/ SetDifferenceWithResult
  \/ SetIntersectionWithResult

SpecFrame == InitFrame /\ [][NextFrame]_vars

----------------------------------------------------------------------------
(* SpecQuery: the queries on two bitmaps of the same size, every pair of   *)
(* storage patterns.                                                       *)

NextQuery ==
  \/ IsFull
  \/ IsEmpty
  \/ IsSame
  \/ Contains
  \/ Intersects
  \/ Return

SpecQuery == InitAlg /\ [][NextQuery]_vars

----------------------------------------------------------------------------
(* SpecIter: iterate(blk, leftOffset, rightOffset) on one bitmap, with a   *)
(* closure that may set or clear a bit of the bitmap and may ask to stop.  *)
(* A step is one invocation of the closure with the scan that leads to the *)
(* next one.                                                               *)

\* The size of the bitmap iterated over.
IterSize == 5

\* The scan of iterate between two invocations of the closure.  The inner
\* loop, entered with rest already sampled: it stops at the next offset
\* whose bit of rest is 1 (the closure is invoked there), and falls to the
\* increment of the outer loop when rest is 0 or offset reaches
\* rightOffset.  The outer loop samples the word at index.  At the end
\* iterate returns true.
RECURSIVE iterate_inner(_, _, _, _, _)
iterate_inner(m, index, offset, rest, rightOffset) ==
  LET endIndex == MIN2(word_index(rightOffset) + 1, Cardinality(DOMAIN m))
  IN IF offset < rightOffset /\ rest # 0
       THEN IF rest % 2 = 1
              THEN [pc |-> "do_bit", index |-> index, offset |-> offset,
                    rest |-> rest, ret |-> FALSE]
              ELSE iterate_inner(m, index, offset + 1, SHR(rest, 1), rightOffset)
       ELSE LET next_index == index + 1
                next_offset == bit_index(next_index)
            IN IF next_offset < rightOffset /\ next_index < endIndex
                 THEN iterate_inner(m, next_index, next_offset,
                                    SHR(m[next_index], bit_in_word(next_offset)),
                                    rightOffset)
                 ELSE [pc |-> "done", index |-> next_index, offset |-> next_offset,
                       rest |-> 0, ret |-> TRUE]

\* iterate that samples the first word from its first bit on.
iterate_enter_at_word(m, leftOffset, rightOffset) ==
  LET startIndex == word_index(leftOffset)
      endIndex == MIN2(word_index(rightOffset) + 1, Cardinality(DOMAIN m))
  IN IF leftOffset < rightOffset /\ startIndex < endIndex
       THEN iterate_inner(m, startIndex, bit_index(startIndex),
                          m[startIndex], rightOffset)
       ELSE [pc |-> "done", index |-> startIndex, offset |-> leftOffset,
             rest |-> 0, ret |-> TRUE]

\* The entry of iterate, up to the first invocation of the closure.
iterate_enter(m, leftOffset, rightOffset) ==
  LET startIndex == word_index(leftOffset)
      endIndex == MIN2(word_index(rightOffset) + 1, Cardinality(DOMAIN m))
  IN IF leftOffset < rightOffset /\ startIndex < endIndex
       THEN iterate_inner(m, startIndex, leftOffset,
                          SHR(m[startIndex], bit_in_word(leftOffset)),
                          rightOffset)
       ELSE [pc |-> "done", index |-> startIndex, offset |-> leftOffset,
             rest |-> 0, ret |-> TRUE]

\* iterate that goes on when the closure returns false.
iterate_ignores_do_bit(m, index, offset, rest, result, rightOffset) ==
  iterate_inner(m, index, offset + 1,
                SHR(SHR(m[index], bit_in_word(offset)), 1), rightOffset)

\* iterate that does not resample the word after the closure.
iterate_keeps_rest(m, index, offset, rest, result, rightOffset) ==
  IF ~result
    THEN [pc |-> "done", index |-> index, offset |-> offset,
          rest |-> rest, ret |-> FALSE]
    ELSE iterate_inner(m, index, offset + 1, SHR(rest, 1), rightOffset)

\* From the return of do_bit(offset) on, m being the map the closure left
\* and rest the local as it was before the invocation: return false when
\* do_bit returned false; otherwise resample the word, shift the bit just
\* visited out, and go on with the next offset.
iterate_after_do_bit(m, index, offset, rest, result, rightOffset) ==
  IF ~result
    THEN [pc |-> "done", index |-> index, offset |-> offset,
          rest |-> rest, ret |-> FALSE]
    ELSE iterate_inner(m, index, offset + 1,
                       SHR(SHR(m[index], bit_in_word(offset)), 1), rightOffset)

\* What a closure does to the bitmap in one invocation: nothing, or
\* set_bit or clear_bit of one bit.
Edits == {<<"none", 0>>} \cup ({"set", "clear"} \X (0 .. (IterSize - 1)))

Edited(m, edit) ==
  CASE edit[1] = "none" -> m
    [] edit[1] = "set" -> set_range(m, edit[2], edit[2] + 1)
    [] edit[1] = "clear" -> clear_range(m, edit[2], edit[2] + 1)

\* The bits the scan is due to visit, after an edit made by the closure
\* while invoked on the bit current: a bit right of current and inside the
\* range is due once set and no longer due once cleared.
Due(due, edit, current, rightOffset) ==
  IF edit[1] = "none" \/ edit[2] <= current \/ edit[2] >= rightOffset THEN due
  ELSE IF edit[1] = "set" THEN due \cup {edit[2]}
  ELSE due \ {edit[2]}

InitIter ==
  /\ size = IterSize
  /\ map \in allocate(size, FALSE)
  /\ other = NullMap
  /\ last = NoCall
  /\ thr = <<>>
  /\ iter = NoIterate
  /\ tab = NoTable
  /\ pol = NoPolicy
  /\ unl = NoUnload
  /\ zh = NoMetaCalls
  /\ cset = NoCSet
  /\ young = NoYoung

\* The call of iterate, up to the first invocation of the closure or to
\* the return.
IterateCall ==
  /\ iter.pc = "idle"
  /\ \E leftOffset \in 0 .. size, rightOffset \in 0 .. size :
       /\ ValidRange(leftOffset, rightOffset)
       /\ LET at_ == iterate_enter(map, leftOffset, rightOffset)
              set == {i \in leftOffset .. (rightOffset - 1) : at(map, i)}
          IN iter' = [NoIterate EXCEPT
                        !.pc = at_.pc, !.index = at_.index, !.offset = at_.offset,
                        !.rest = at_.rest, !.ret = at_.ret,
                        !.left = leftOffset, !.right = rightOffset,
                        !.pre = set, !.due = set]
  /\ UNCHANGED <<size, map, other, last, thr, tab, pol, unl, zh, cset, young>>

\* blk->do_bit(offset): the closure edits the bitmap and returns result;
\* then the scan up to the next invocation or to the return.
DoBit ==
  /\ iter.pc = "do_bit"
  /\ \E result \in BOOLEAN, edit \in Edits :
       LET m == Edited(map, edit)
           at_ == iterate_after_do_bit(m, iter.index, iter.offset, iter.rest,
                                       result, iter.right)
       IN /\ map' = m
          /\ iter' = [iter EXCEPT
                        !.pc = at_.pc, !.index = at_.index, !.offset = at_.offset,
                        !.rest = at_.rest, !.ret = at_.ret,
                        !.visited = Append(@, iter.offset),
                        !.due = Due(@, edit, iter.offset, iter.right),
                        !.refused = IF ~result /\ @ = 0
                                      THEN Len(iter.visited) + 1 ELSE @,
                        !.mutated = @ \/ m # map]
  /\ UNCHANGED <<size, other, last, thr, tab, pol, unl, zh, cset, young>>

\* The caller takes the result; the bitmap is as the closure left it.
IterateReturn ==
  /\ iter.pc = "done"
  /\ iter' = NoIterate
  /\ UNCHANGED <<size, map, other, last, thr, tab, pol, unl, zh, cset, young>>

NextIter ==
  \/ IterateCall
  \/ DoBit
  \/ IterateReturn

SpecIter == InitIter /\ [][NextIter]_vars

----------------------------------------------------------------------------
(* SpecTable: threads that call init_pop_count_table() and                 *)
(* count_one_bits() concurrently.  A step of a thread is one access to     *)
(* the shared pointer or to a table.                                       *)

\* The number of threads.
MaxCounters == 2

Counters == 1 .. MaxCounters

\* NULL; the table a thread allocates is named by the thread.
NULL == 0

\* The number of entries of a table: one per value of a byte (256 in the
\* source).
TableSize == 2^BitsPerByte

\* A table of the C heap: not allocated, allocated with its first filled
\* entries written, or freed.
NoHeapTable == [state |-> "none", filled |-> 0]

\* Atomic::replace_if_null(&_pop_count_table, table) that stores always.
replace_always(ptr, table) == [ptr |-> table, ok |-> TRUE]

\* Atomic::replace_if_null(&_pop_count_table, table): the pointer it
\* leaves and what it returns.
replace_if_null(ptr, table) ==
  [ptr |-> IF ptr = NULL THEN table ELSE ptr, ok |-> ptr = NULL]

\* The loop of init_pop_count_table: after NEW_C_HEAP_ARRAY and after each
\* table[i] = num_set_bits(i), either the next entry or the publication.
init_after_entry(filled) == IF filled < TableSize THEN "fill" ELSE "publish"

\* After init_pop_count_table: count_one_bits goes on to read the table.
AfterInit(op) == IF op = "count_one_bits" THEN "count" ELSE "done"

InitTable ==
  /\ size = 0
  /\ map = NullMap
  /\ other = NullMap
  /\ last = NoCall
  /\ thr = <<>>
  /\ iter = NoIterate
  /\ pol = NoPolicy
  /\ unl = NoUnload
  /\ zh = NoMetaCalls
  /\ cset = NoCSet
  /\ young = NoYoung
  /\ tab = [ptr |-> NULL,
            heap |-> [t \in Counters |-> NoHeapTable],
            pc |-> [t \in Counters |-> "idle"],
            op |-> [t \in Counters |-> "none"]]

\* A thread calls init_pop_count_table() or count_one_bits(), which starts
\* with init_pop_count_table().
TableCall(t) ==
  /\ tab.pc[t] = "idle"
  /\ \E op \in {"init_pop_count_table", "count_one_bits"} :
       tab' = [tab EXCEPT !.pc[t] = "check", !.op[t] = op]
  /\ UNCHANGED <<size, map, other, last, thr, iter, pol, unl, zh, cset, young>>

\* if (_pop_count_table == NULL)
TableCheck(t) ==
  /\ tab.pc[t] = "check"
  /\ tab' = [tab EXCEPT !.pc[t] = IF tab.ptr = NULL THEN "alloc"
                                  ELSE AfterInit(tab.op[t])]
  /\ UNCHANGED <<size, map, other, last, thr, iter, pol, unl, zh, cset, young>>

\* table = NEW_C_HEAP_ARRAY(idx_t, 256, mtInternal)
TableAlloc(t) ==
  /\ tab.pc[t] = "alloc"
  /\ tab' = [tab EXCEPT !.heap[t] = [state |-> "live", filled |-> 0],
                        !.pc[t] = init_after_entry(0)]
  /\ UNCHANGED <<size, map, other, last, thr, iter, pol, unl, zh, cset, young>>

\* table[i] = num_set_bits(i)
TableFill(t) ==
  /\ tab.pc[t] = "fill"
  /\ tab' = [tab EXCEPT !.heap[t].filled = @ + 1,
                        !.pc[t] = init_after_entry(tab.heap[t].filled + 1)]
  /\ UNCHANGED <<size, map, other, last, thr, iter, pol, unl, zh, cset, young>>

\* if (!Atomic::replace_if_null(&_pop_count_table, table))
TablePublish(t) ==
  /\ tab.pc[t] = "publish"
  /\ LET r == replace_if_null(tab.ptr, t)
     IN tab' = [tab EXCEPT !.ptr = r.ptr,
                           !.pc[t] = IF r.ok THEN AfterInit(tab.op[t])
                                     ELSE "free"]
  /\ UNCHANGED <<size, map, other, last, thr, iter, pol, unl, zh, cset, young>>

\* guarantee(_pop_count_table != NULL); FREE_C_HEAP_ARRAY(idx_t, table)
TableFree(t) ==
  /\ tab.pc[t] = "free"
  /\ tab.ptr # NULL
  /\ tab' = [tab EXCEPT !.heap[t].state = "freed",
                        !.pc[t] = AfterInit(tab.op[t])]
  /\ UNCHANGED <<size, map, other, last, thr, iter, pol, unl, zh, cset, young>>

\* The loops of count_one_bits, reading _pop_count_table[c].
TableCount(t) ==
  /\ tab.pc[t] = "count"
  /\ tab' = [tab EXCEPT !.pc[t] = "done"]
  /\ UNCHANGED <<size, map, other, last, thr, iter, pol, unl, zh, cset, young>>

TableReturn(t) ==
  /\ tab.pc[t] = "done"
  /\ tab' = [tab EXCEPT !.pc[t] = "idle", !.op[t] = "none"]
  /\ UNCHANGED <<size, map, other, last, thr, iter, pol, unl, zh, cset, young>>

NextTable ==
  \E t \in Counters :
    \/ TableCall(t)
    \/ TableCheck(t)
    \/ TableAlloc(t)
    \/ TableFill(t)
    \/ TablePublish(t)
    \/ TableFree(t)
    \/ TableCount(t)
    \/ TableReturn(t)

SpecTable == InitTable /\ [][NextTable]_vars

----------------------------------------------------------------------------
(* SpecPhase: G1Policy as the controller of the collector's phases.  The   *)
(* operations are those g1Policy.hpp declares; each is one step, made at a *)
(* pause boundary.                                                         *)

\* The most candidates a marking leaves.
MaxCandidates == 3

\* The most mixed pauses of one mixed phase.
MaxMixedPauses == 2

\* The most marking requests of a run.
MaxArmings == 3

\* need_to_start_conc_mark: the old generation occupancy is over the
\* threshold (crossing) and the collector is young-only with no marking
\* requested or under way.
need_to_start_conc_mark(p, crossing) == crossing /\ p.state = "YoungOnly"

\* Sets up marking if proper conditions are met.
maybe_start_marking(p, crossing) ==
  IF need_to_start_conc_mark(p, crossing)
    THEN [p EXCEPT !.state = "MarkingArmed",
                   !.initiate_conc_mark_if_possible = TRUE]
    ELSE p

\* initiate_conc_mark that leaves the flag set.
initiate_conc_mark_keeps_flag(p) == [p EXCEPT !.state = "Marking"]

\* Set the state to start a concurrent marking cycle and clear
\* _initiate_conc_mark_if_possible because it has now been acted on.
initiate_conc_mark(p) ==
  [p EXCEPT !.state = "Marking", !.initiate_conc_mark_if_possible = FALSE]

\* At the very beginning of an evacuation pause: if
\* initiate_conc_mark_if_possible() is true and the concurrent marking
\* thread has completed its work during the previous cycle, the pause
\* starts a marking cycle.
decide_on_conc_mark_initiation(p) ==
  IF p.initiate_conc_mark_if_possible /\ p.state = "MarkingArmed"
    THEN initiate_conc_mark(p)
    ELSE p

\* force_initial_mark_if_outside_cycle that requests a marking whatever
\* the state.
force_initial_mark_always(p) ==
  [p EXCEPT !.state = "MarkingArmed",
            !.initiate_conc_mark_if_possible = TRUE, !.ret = TRUE]

\* next_gc_should_be_mixed that always asks for a mixed pause.
next_gc_always_mixed(p) == TRUE

\* This sets the initiate_conc_mark_if_possible() flag to start a new
\* cycle, as long as we are not already in one.
force_initial_mark_if_outside_cycle(p) ==
  IF p.state = "YoungOnly"
    THEN [p EXCEPT !.state = "MarkingArmed",
                   !.initiate_conc_mark_if_possible = TRUE, !.ret = TRUE]
    ELSE [p EXCEPT !.ret = FALSE]

clear_collection_set_candidates(p) == [p EXCEPT !.candidates = 0]

\* Indicate that we aborted marking before doing any mixed GCs.
abort_time_to_mixed_tracking(p) == [p EXCEPT !.abandoned = TRUE]

\* The next pause is mixed while candidates are left and the mixed phase
\* has not had its maximum of pauses.
next_gc_should_be_mixed(p) ==
  p.candidates > 0 /\ p.mixed_pauses < MaxMixedPauses

\* record_concurrent_mark_cleanup_end that starts the mixed phase whatever
\* the candidates.
cleanup_end_always_mixed(p, found) ==
  [p EXCEPT !.candidates = found, !.mixed_pauses = 0, !.state = "Mixed"]

\* The concurrent mark completes and leaves found candidates: the mixed
\* phase starts when the next pause should be mixed; otherwise the
\* candidates are cleared and the collector is young-only again.
record_concurrent_mark_cleanup_end(p, found) ==
  LET q == [p EXCEPT !.candidates = found, !.mixed_pauses = 0]
  IN IF next_gc_should_be_mixed(q)
       THEN [q EXCEPT !.state = "Mixed"]
       ELSE [abort_time_to_mixed_tracking(clear_collection_set_candidates(q))
               EXCEPT !.state = "YoungOnly"]

\* The end of an evacuation pause that collected taken old regions: a
\* young-only pause may request a marking; a mixed pause takes its regions
\* off the candidates and ends the mixed phase when the next pause should
\* not be mixed.
record_collection_pause_end(p, crossing, taken) ==
  IF p.state = "Mixed"
    THEN LET q == [p EXCEPT !.candidates = @ - taken, !.mixed_pauses = @ + 1]
         IN IF next_gc_should_be_mixed(q) THEN q
            ELSE [clear_collection_set_candidates(q) EXCEPT
                    !.state = "YoungOnly", !.mixed_pauses = 0]
    ELSE maybe_start_marking(p, crossing)

\* record_full_collection_end that only abandons the tracking.
full_collection_end_keeps_phase(p) == abort_time_to_mixed_tracking(p)

\* The end of a full collection: a marking under way or requested is
\* aborted and the collector is young-only.
record_full_collection_end(p) ==
  [abort_time_to_mixed_tracking(clear_collection_set_candidates(p)) EXCEPT
     !.state = "YoungOnly", !.initiate_conc_mark_if_possible = FALSE,
     !.mixed_pauses = 0]

\* The controller proper: the phase, the flag, the candidates, the mixed
\* pauses so far and the abandoned tracking.
Controller(p) ==
  <<p.state, p.initiate_conc_mark_if_possible, p.candidates, p.mixed_pauses,
    p.abandoned>>

\* The record of the run after the operation op took p to q.
Recorded(p, q, op) ==
  LET armed == ~p.initiate_conc_mark_if_possible /\ q.initiate_conc_mark_if_possible
      started == p.state # "Marking" /\ q.state = "Marking"
  IN [q EXCEPT !.op = op, !.pre = p.state, !.before = Controller(p),
               !.aborted = IF armed THEN FALSE
                           ELSE IF op = "record_full_collection_end" THEN TRUE
                           ELSE @,
               !.armings = IF armed THEN @ + 1 ELSE @,
               !.cycles = IF started THEN @ + 1 ELSE @,
               !.abandoned = IF armed THEN FALSE ELSE @,
               !.empty_mark =
                  IF armed THEN FALSE
                  ELSE IF op = "record_concurrent_mark_cleanup_end"
                    THEN q.candidates = 0
                  ELSE @]

\* An operation made on the policy outside or inside a pause.
PolicyStep(op, in_pause, q) ==
  /\ pol.in_pause = in_pause
  /\ pol.armings < MaxArmings \/ ~q.initiate_conc_mark_if_possible
       \/ pol.initiate_conc_mark_if_possible
  /\ pol' = Recorded(pol, q, op)
  /\ UNCHANGED <<size, map, other, last, thr, iter, tab, unl, zh, cset, young>>

RecordCollectionPauseStart ==
  PolicyStep("record_collection_pause_start", FALSE,
             [decide_on_conc_mark_initiation(pol) EXCEPT !.in_pause = TRUE])

RecordCollectionPauseEnd ==
  \E crossing \in BOOLEAN, taken \in 0 .. MaxCandidates :
    /\ IF pol.state = "Mixed" THEN taken \in 1 .. pol.candidates ELSE taken = 0
    /\ PolicyStep("record_collection_pause_end", TRUE,
                  [record_collection_pause_end(pol, crossing, taken)
                     EXCEPT !.in_pause = FALSE, !.crossing = crossing])

ForceInitialMarkIfOutsideCycle ==
  PolicyStep("force_initial_mark_if_outside_cycle", FALSE,
             force_initial_mark_if_outside_cycle(pol))

RecordConcurrentMarkCleanupEnd ==
  /\ pol.state = "Marking"
  /\ \E found \in 0 .. MaxCandidates :
       PolicyStep("record_concurrent_mark_cleanup_end", FALSE,
                  record_concurrent_mark_cleanup_end(pol, found))

RecordFullCollectionEnd ==
  PolicyStep("record_full_collection_end", FALSE,
             record_full_collection_end(pol))

InitPhase ==
  /\ size = 0
  /\ map = NullMap
  /\ other = NullMap
  /\ last = NoCall
  /\ thr = <<>>
  /\ iter = NoIterate
  /\ tab = NoTable
  /\ pol = NoPolicy
  /\ unl = NoUnload
  /\ zh = NoMetaCalls
  /\ cset = NoCSet
  /\ young = NoYoung

NextPhase ==
  \/ RecordCollectionPauseStart
  \/ RecordCollectionPauseEnd
  \/ ForceInitialMarkIfOutsideCycle
  \/ RecordConcurrentMarkCleanupEnd
  \/ RecordFullCollectionEnd

SpecPhase == InitPhase /\ [][NextPhase]_vars

\* Pauses keep occurring: a pause that can start does start, and a pause
\* under way ends.
SpecPhaseLive ==
  /\ InitPhase
  /\ [][NextPhase]_vars
  /\ WF_vars(RecordCollectionPauseStart)
  /\ WF_vars(RecordCollectionPauseEnd)

----------------------------------------------------------------------------
(* SpecPar: two threads, each making one par_ call on the same bitmap.     *)
(* A step of a thread is one access to the shared map, with the local      *)
(* computation that leads to it.                                           *)

Threads == {1, 2}

\* The size of the bitmap the threads share.
ParSize == 7

\* A thread: the call it makes (op, beg, end, value), where it is in it
\* (pc), its locals (put, w, i), what the call returned (ret), and conc,
\* the threads that were inside a call at some time during this call.
IdleThread ==
  [op |-> "idle", pc |-> "idle", beg |-> 0, end |-> 0, value |-> FALSE,
   put |-> FALSE, w |-> 0, i |-> 0, ret |-> FALSE, conc |-> {}]

InCall(t) == thr[t].pc \notin {"idle", "done"}

\* Thread t enters the call c: the threads inside a call and t are
\* concurrent from now on.
Enter(t, c) ==
  [u \in Threads |->
     IF u = t THEN [c EXCEPT !.conc = {v \in Threads \ {t} : InCall(v)}]
     ELSE IF InCall(u) THEN [thr[u] EXCEPT !.conc = @ \cup {t}]
     ELSE thr[u]]

\* par_at_put(bit, value): the value the routine it calls writes;
\* par_set_bit writes 1 and par_clear_bit 0.
par_at_put_swapped(value) == ~value

par_at_put(value) == IF value THEN TRUE ELSE FALSE

\* What a call of par_at_put_range does, in order: an atomic put of the
\* range p1 within one word, plain stores of the words wbeg .. wend-1, an
\* atomic put of the range p2 within one word.
par_at_put_range_plan(beg, end) ==
  LET beg_full_word == word_index_round_up(beg)
      end_full_word == word_index(end)
  IN IF beg_full_word < end_full_word
       THEN [p1 |-> <<beg, bit_index(beg_full_word)>>,
             wbeg |-> beg_full_word, wend |-> end_full_word,
             p2 |-> <<bit_index(end_full_word), end>>]
       ELSE LET boundary == MIN2(bit_index(beg_full_word), end)
            IN [p1 |-> <<beg, boundary>>,
                wbeg |-> 0, wend |-> 0,
                p2 |-> <<boundary, end>>]

par_at_put_large_range_plan(beg, end) ==
  LET beg_full_word == word_index_round_up(beg)
      end_full_word == word_index(end)
  IN IF is_small_range_of_words(beg_full_word, end_full_word)
       THEN par_at_put_range_plan(beg, end)
       ELSE [p1 |-> <<beg, bit_index(beg_full_word)>>,
             wbeg |-> beg_full_word, wend |-> end_full_word,
             p2 |-> <<bit_index(end_full_word), end>>]

Plan(t) ==
  IF t.op = "par_at_put_large_range"
    THEN par_at_put_large_range_plan(t.beg, t.end)
    ELSE par_at_put_range_plan(t.beg, t.end)

\* par_put_range_within_word returns at once on an empty range: the next
\* access of the call is that of its next non-empty part.
AfterWords(plan) == IF plan.p2[1] # plan.p2[2] THEN "p2" ELSE "done"

AfterP1(plan) == IF plan.wbeg < plan.wend THEN "words" ELSE AfterWords(plan)

Start(plan) == IF plan.p1[1] # plan.p1[2] THEN "p1" ELSE AfterP1(plan)

\* The loop of par_put_range_within_word around Atomic::cmpxchg(pw, w, nw),
\* one round: cur is the word in memory.  mem is the word the round leaves
\* in memory, done whether the loop ends, res what cmpxchg returned.
par_put_range_blind_store(cur, w, nw) ==
  [mem |-> nw, done |-> TRUE, res |-> cur]

par_put_range_cmpxchg(cur, w, nw) ==
  [mem |-> IF cur = w THEN nw ELSE cur, done |-> cur = w, res |-> cur]

\* par_set_bit and par_clear_bit, from the read of the word on: the word
\* old_val was read; when it holds the bit as wanted the routine returns
\* false without writing.
bit_new_val(old_val, bit, put) ==
  IF put THEN OR(old_val, bit_mask(bit)) ELSE AND(old_val, NOT(bit_mask(bit)))

InitPar ==
  /\ size = ParSize
  /\ map \in {[i \in WordIdx(calc_size_in_words(ParSize)) |-> w] : w \in {0, AllOnes}}
  /\ other = NullMap
  /\ last = [NoCall EXCEPT !.op = "par", !.pre_size = size, !.pre_map = map]
  /\ thr = [t \in Threads |-> IdleThread]
  /\ iter = NoIterate
  /\ tab = NoTable
  /\ pol = NoPolicy
  /\ unl = NoUnload
  /\ zh = NoMetaCalls
  /\ cset = NoCSet
  /\ young = NoYoung

\* The call of par_at_put(bit, value).
CallParAtPut(t) ==
  /\ thr[t].pc = "idle"
  /\ \E bit \in 0 .. (size - 1), value \in BOOLEAN :
       thr' = Enter(t, [IdleThread EXCEPT
                          !.op = "par_at_put", !.pc = "bit_read",
                          !.beg = bit, !.end = bit + 1,
                          !.value = value, !.put = par_at_put(value)])
  /\ UNCHANGED <<size, map, other, last, iter, tab, pol, unl, zh, cset, young>>

\* The range calls a thread makes.  par_at_put_large_range is
\* par_at_put_range but for the memset of its whole words, which the model
\* stores word by word too: one thread making it is enough.
RangeCalls(t) ==
  IF t = 1 THEN {"par_at_put_range", "par_at_put_large_range"}
  ELSE {"par_at_put_range"}

\* The call of par_at_put_range or par_at_put_large_range(beg, end, value).
CallParRange(t) ==
  /\ thr[t].pc = "idle"
  /\ \E op \in RangeCalls(t),
        beg \in 0 .. size, end \in 0 .. size, value \in BOOLEAN :
       /\ ValidRange(beg, end)
       /\ LET c == [IdleThread EXCEPT !.op = op, !.beg = beg, !.end = end,
                                      !.value = value, !.put = value]
          IN thr' = Enter(t, [c EXCEPT !.pc = Start(Plan(c)),
                                       !.i = Plan(c).wbeg])
  /\ UNCHANGED <<size, map, other, last, iter, tab, pol, unl, zh, cset, young>>

\* old_val = *addr, and the first test of the loop.
BitRead(t) ==
  /\ thr[t].pc = "bit_read"
  /\ LET old_val == map[word_index(thr[t].beg)]
     IN thr' = [thr EXCEPT ![t] =
                  IF bit_new_val(old_val, thr[t].beg, thr[t].put) = old_val
                    THEN [@ EXCEPT !.pc = "done", !.ret = FALSE]
                    ELSE [@ EXCEPT !.pc = "bit_cas", !.w = old_val]]
  /\ UNCHANGED <<size, map, other, last, iter, tab, pol, unl, zh, cset, young>>

\* cur_val = Atomic::cmpxchg(addr, old_val, new_val), and the tests that
\* follow it.
BitCas(t) ==
  /\ thr[t].pc = "bit_cas"
  /\ LET pw == word_index(thr[t].beg)
         cur_val == map[pw]
         new_val == bit_new_val(thr[t].w, thr[t].beg, thr[t].put)
     IN IF cur_val = thr[t].w
          THEN /\ map' = [map EXCEPT ![pw] = new_val]
               /\ thr' = [thr EXCEPT ![t] = [@ EXCEPT !.pc = "done", !.ret = TRUE]]
          ELSE /\ map' = map
               /\ thr' = [thr EXCEPT ![t] =
                            IF bit_new_val(cur_val, thr[t].beg, thr[t].put) = cur_val
                              THEN [@ EXCEPT !.pc = "done", !.ret = FALSE]
                              ELSE [@ EXCEPT !.w = cur_val]]
  /\ UNCHANGED <<size, other, last, iter, tab, pol, unl, zh, cset, young>>

\* The part of the call a thread is at: p1 or p2 of its plan.
Part(t) ==
  IF thr[t].pc \in {"p1", "p1_cas"} THEN Plan(thr[t]).p1 ELSE Plan(thr[t]).p2

\* par_put_range_within_word: w = *pw.
PartRead(t) ==
  /\ thr[t].pc \in {"p1", "p2"}
  /\ thr' = [thr EXCEPT ![t] =
               [@ EXCEPT !.w = map[word_index(Part(t)[1])],
                         !.pc = IF thr[t].pc = "p1" THEN "p1_cas" ELSE "p2_cas"]]
  /\ UNCHANGED <<size, map, other, last, iter, tab, pol, unl, zh, cset, young>>

\* par_put_range_within_word: one round of the loop.
PartCas(t) ==
  /\ thr[t].pc \in {"p1_cas", "p2_cas"}
  /\ LET pw == word_index(Part(t)[1])
         mr == inverted_bit_mask_for_range(Part(t)[1], Part(t)[2])
         nw == par_new_word(thr[t].w, mr, thr[t].put)
         r == par_put_range_cmpxchg(map[pw], thr[t].w, nw)
     IN /\ map' = [map EXCEPT ![pw] = r.mem]
        /\ thr' = [thr EXCEPT ![t] =
                     IF r.done
                       THEN [@ EXCEPT !.pc = IF thr[t].pc = "p1_cas"
                                               THEN AfterP1(Plan(thr[t]))
                                               ELSE "done"]
                       ELSE [@ EXCEPT !.w = r.res]]
  /\ UNCHANGED <<size, other, last, iter, tab, pol, unl, zh, cset, young>>

\* One store of set_range_of_words, clear_range_of_words or their large
\* variants: map[i] = ~0 or map[i] = 0.
WordStore(t) ==
  /\ thr[t].pc = "words"
  /\ map' = [map EXCEPT ![thr[t].i] = IF thr[t].put THEN AllOnes ELSE 0]
  /\ thr' = [thr EXCEPT ![t] =
               [@ EXCEPT !.i = thr[t].i + 1,
                         !.pc = IF thr[t].i + 1 < Plan(thr[t]).wend
                                  THEN "words"
                                  ELSE AfterWords(Plan(thr[t]))]]
  /\ UNCHANGED <<size, other, last, iter, tab, pol, unl, zh, cset, young>>

NextPar ==
  \E t \in Threads :
    \/ CallParAtPut(t)
    \/ CallParRange(t)
    \/ BitRead(t)
    \/ BitCas(t)
    \/ PartRead(t)
    \/ PartCas(t)
    \/ WordStore(t)

SpecPar == InitPar /\ [][NextPar]_vars

----------------------------------------------------------------------------
(* Properties. *)

\* The indices below sz whose bit is set.
SetBits(m, sz) == {i \in 0 .. (sz - 1) : at(m, i)}

\* Every bit position of the storage, those at and past the size included.
StorageBits(m) == 0 .. (bit_index(calc_size_in_words(0) + Cardinality(DOMAIN m)) - 1)

\* No storage bit at a position >= sz is set.
TailClean(m, sz) ==
  bit_in_word(sz) = 0
  \/ AND(m[word_index(sz)], NOT(tail_mask(bit_in_word(sz)))) = 0

InRange(i, beg, end) == beg <= i /\ i < end

\* The bitmap with every bit below sz flipped.
Complement(m, sz) ==
  [i \in DOMAIN m |->
     IF i < word_index(sz) THEN XOR(m[i], AllOnes)
     ELSE XOR(m[i], tail_mask(bit_in_word(sz)))]

\* A range with a partial head word, at least one whole word and a partial
\* tail word.
ThreePartRange(beg, end) ==
  /\ bit_in_word(beg) # 0
  /\ word_index_round_up(beg) < word_index(end)
  /\ bit_in_word(end) # 0

\* C1 (as claimed): count_one_bits() returns exactly the number of set bits
\* at indices < size, whatever the storage holds at positions >= size.
C1_CountOnlyBelowSize ==
  last.op = "count_one_bits" => last.count = Cardinality(SetBits(map, size))

\* C2 (as claimed): after resize(new_size, clear=true) every bit below
\* min(old_size, new_size) keeps its value and every new bit i with
\* old_size <= i < new_size reads 0.
C2_ResizeKeepsPrefixZeroFillsGrowth ==
  (last.op = "resize" /\ last.value) =>
    \A i \in 0 .. (size - 1) :
       at(map, i) = (i < last.pre_size /\ at(last.pre_map, i))

\* C3 (as claimed): starting from a bitmap allocated with clear=true, after
\* any sequence of range writes, set algebra and resize with clear=true, no
\* storage bit at a position >= size is set.
C3_NoTailBitEverSet == TailClean(map, size)

\* A resize to a smaller size that is not a multiple of the word width.
ShrinksIntoWord ==
  last.op = "resize" /\ size < last.pre_size /\ bit_in_word(size) # 0

\* C3 (amended): each of these operations, applied to a bitmap with no
\* storage bit set at a position >= size, leaves no such bit set, unless it
\* is a resize that shrinks the bitmap to a size that is not a multiple of
\* the word width; the bitmap starts with no such bit set.
C3_TailCleanUnlessShrunkIntoWord ==
  /\ (Idle /\ size = 0) => TailClean(map, size)
  /\ (~Idle /\ TailClean(last.pre_map, last.pre_size) /\ ~ShrinksIntoWord)
       => TailClean(map, size)

C3_Witness ==
  /\ last.op = "set_large_range"
  /\ bit_in_word(size) # 0
  /\ last.end = size
  /\ ~is_small_range_of_words(word_index_round_up(last.beg), word_index(last.end))
  /\ TailClean(last.pre_map, last.pre_size)
  /\ at(map, size - 1)

\* C7: set_range(beg, end) sets exactly the bits of [beg, end), leaves every
\* other bit of the storage unchanged, and count_one_bits() grows by
\* (end - beg) minus the number of bits of [beg, end) that were set before.
C7_SetRangeExact ==
  last.op = "set_range" =>
    /\ \A i \in StorageBits(map) :
          at(map, i) = (at(last.pre_map, i) \/ InRange(i, last.beg, last.end))
    /\ count_one_bits(map) =
         count_one_bits(last.pre_map) + (last.end - last.beg)
           - Cardinality({i \in last.beg .. (last.end - 1) : at(last.pre_map, i)})

C7_Witness ==
  /\ last.op = "set_range"
  /\ ThreePartRange(last.beg, last.end)
  /\ \E i \in last.beg .. (last.end - 1) : at(last.pre_map, i)
  /\ \E i \in last.beg .. (last.end - 1) : ~at(last.pre_map, i)
  /\ \E i \in 0 .. (last.beg - 1) : at(map, i)
  /\ \E i \in 0 .. (last.beg - 1) : ~at(map, i)

\* C8 (as claimed): set_range(beg, end) followed by clear_range(beg, end)
\* leaves the bitmap bit-for-bit as it was before the set_range.
C8_SetThenClearRestores ==
  last.op = "set_range;clear_range" => map = last.pre_map

\* C8 (amended): set_range(beg, end) followed by clear_range(beg, end)
\* leaves the bitmap bit-for-bit as it was before the set_range when no bit
\* of [beg, end) was set before.
C8_SetThenClearRestoresClearRange ==
  (/\ last.op = "set_range;clear_range"
   /\ \A i \in last.beg .. (last.end - 1) : ~at(last.pre_map, i))
    => map = last.pre_map

C8_Witness ==
  /\ last.op = "set_range;clear_range"
  /\ ThreePartRange(last.beg, last.end)
  /\ \A i \in last.beg .. (last.end - 1) : ~at(last.pre_map, i)
  /\ \A i \in 0 .. (last.beg - 1) : at(last.pre_map, i)
  /\ ~TailClean(last.pre_map, size)

\* C9 (as claimed): A.contains(B) is true iff A.intersects(complement of B)
\* is false.
C9_ContainsIffDisjointFromComplementOfOther ==
  last.op = "contains" =>
    (last.ret <=> ~intersects(map, Complement(other, size), size))

\* C9 (amended): A.contains(B) is true iff B.intersects(complement of A) is
\* false.
C9_ContainsIffOtherDisjointFromComplement ==
  last.op = "contains" =>
    (last.ret <=> ~intersects(other, Complement(map, size), size))

C9_Witness ==
  /\ last.op = "contains"
  /\ last.ret
  /\ bit_in_word(size) # 0
  /\ at(other, size - 1)
  /\ SetBits(other, size) # SetBits(map, size)
  /\ ~TailClean(other, size)
  /\ TailClean(map, size)

\* C10: set_union is commutative and idempotent on the bits below size: A
\* after A.set_union(B) is_same as B after B.set_union(A), and
\* A.set_union(A) leaves A unchanged.
C10_UnionCommutativeIdempotent ==
  last.op = "set_union" =>
    /\ is_same(map, set_union(last.operand, last.pre_map, size), size)
    /\ (last.operand = last.pre_map => map = last.pre_map)

C10_Witness ==
  /\ last.op = "set_union"
  /\ bit_in_word(size) # 0
  /\ ~at(last.pre_map, size - 1)
  /\ at(last.operand, size - 1)
  /\ ~TailClean(last.pre_map, size)
  /\ ~TailClean(last.operand, size)
  /\ SetBits(last.pre_map, size) \ SetBits(last.operand, size) # {}

\* The bits a thread's call is to write.
Targets(t) == thr[t].beg .. (thr[t].end - 1)

RangeOps == {"par_at_put_range", "par_at_put_large_range"}

\* The bit positions of word i of the storage.
BitsOfWord(i) == bit_index(i) .. (bit_index(i + 1) - 1)

\* C4: when two threads concurrently execute par_at_put(bit, true) on two
\* different bits of the same word, both bits are set once both calls have
\* returned, and no other bit of the storage has changed.
C4_ConcurrentSetsKeepBothBits ==
  (/\ \A t \in Threads :
        thr[t].op = "par_at_put" /\ thr[t].value /\ thr[t].pc = "done"
   /\ thr[1].beg # thr[2].beg
   /\ word_index(thr[1].beg) = word_index(thr[2].beg))
  => /\ at(map, thr[1].beg)
     /\ at(map, thr[2].beg)
     /\ \A i \in StorageBits(map) \ {thr[1].beg, thr[2].beg} :
           at(map, i) = at(last.pre_map, i)

C4_Witness ==
  /\ \A t \in Threads :
       /\ thr[t].op = "par_at_put" /\ thr[t].value /\ thr[t].pc = "done"
       /\ thr[t].ret
       /\ thr[t].conc # {}
  /\ thr[1].beg # thr[2].beg
  /\ word_index(thr[1].beg) = word_index(thr[2].beg)

\* C5: no step of par_at_put_range or par_at_put_large_range(beg, end, v)
\* changes a bit outside [beg, end), whatever the other threads have
\* written since the thread read the word, and every word it writes with a
\* plain store lies entirely inside [beg, end).
C5_ParRangeWritesOnlyItsRange ==
  [][\A t \in Threads :
       thr[t].op \in RangeOps =>
         /\ thr'[t] # thr[t] =>
              \A i \in StorageBits(map) \ Targets(t) : at(map', i) = at(map, i)
         /\ thr[t].pc = "words" => BitsOfWord(thr[t].i) \subseteq Targets(t)]_vars

\* A thread about to compare-and-swap the partial head word of a range
\* with a head, whole words and a tail, after another thread has changed
\* that word by setting or clearing a bit outside the range.
C5_Witness ==
  \E t \in Threads, u \in Threads :
    /\ thr[t].op \in RangeOps
    /\ ThreePartRange(thr[t].beg, thr[t].end)
    /\ thr[t].pc = "p1_cas"
    /\ thr[t].w # map[word_index(thr[t].beg)]
    /\ thr[u].op = "par_at_put" /\ thr[u].pc = "done" /\ thr[u].ret
    /\ thr[u].beg \notin Targets(t)

\* Thread u puts a target bit of thread t to the opposite value, in a call
\* concurrent with that of t.
Opposes(u, t) ==
  /\ u \in thr[t].conc
  /\ thr[u].value # thr[t].value
  /\ Targets(u) \cap Targets(t) # {}

\* C6: when the compare-and-swap loop of an atomic put ends (par_at_put,
\* and the partial words of par_at_put_range), the bits it was to write
\* hold the requested value; and when a call returns and no other thread
\* was concurrently putting one of its target bits to the opposite value,
\* all its target bits hold the requested value.
C6_PutHoldsAtCasAndAtReturn ==
  [][\A t \in Threads :
       /\ (thr[t].pc \in {"bit_read", "bit_cas"} /\ thr'[t].pc = "done")
            => at(map', thr[t].beg) = thr[t].value
       /\ (thr[t].pc \in {"p1_cas", "p2_cas"} /\ thr'[t].pc # thr[t].pc)
            => \A i \in Part(t)[1] .. (Part(t)[2] - 1) :
                  at(map', i) = thr[t].value
       /\ (InCall(t) /\ thr'[t].pc = "done"
           /\ ~\E u \in Threads \ {t} : Opposes(u, t))
            => \A i \in Targets(t) : at(map', i) = thr[t].value]_vars

\* Two concurrent par_at_put calls on the same bit with opposite values
\* have both returned true, and the bit is clear: it held 1 only during the
\* call that set it.
C6_Witness ==
  \E t \in Threads, u \in Threads :
    /\ thr[t].op = "par_at_put" /\ thr[t].pc = "done" /\ thr[t].ret
    /\ thr[u].op = "par_at_put" /\ thr[u].pc = "done" /\ thr[u].ret
    /\ thr[t].beg = thr[u].beg
    /\ thr[t].value /\ ~thr[u].value
    /\ u \in thr[t].conc
    /\ ~at(map, thr[t].beg)

\* The map with every storage bit at a position >= sz cleared.
MaskTail(m, sz) ==
  [i \in DOMAIN m |->
     IF i = word_index(sz) THEN tail_of_map(m[i], bit_in_word(sz)) ELSE m[i]]

QueryOps == {"is_full", "is_empty", "is_same", "contains", "intersects"}

\* What the query op returns on the bitmaps m and o of size sz.
QueryResult(op, m, o, sz) ==
  CASE op = "is_full" -> is_full(m, sz)
    [] op = "is_empty" -> is_empty(m, sz)
    [] op = "is_same" -> is_same(m, o, sz)
    [] op = "contains" -> contains(m, o, sz)
    [] op = "intersects" -> intersects(m, o, sz)

\* C11: is_full, is_empty, is_same, contains and intersects return what
\* they return on the same bitmaps with every storage bit at a position
\* >= size cleared in both operands, so that two pairs of operands that
\* differ only in such bits get the same result; and they read no word
\* outside the storage: when size is a multiple of the word width, no word
\* past the last one.
C11_QueriesIgnoreTail ==
  last.op \in QueryOps =>
    /\ last.ret = QueryResult(last.op, MaskTail(map, size),
                              MaskTail(other, size), size)
    /\ query_words(size) \subseteq DOMAIN map
    /\ bit_in_word(size) = 0 => word_index(size) \notin query_words(size)

\* is_empty answers true on a bitmap whose storage has a bit set past the
\* size, in a tail word that follows a whole word.
C11_Witness ==
  /\ last.op = "is_empty"
  /\ last.ret
  /\ word_index(size) > 0
  /\ ~TailClean(map, size)

\* The elements of a sequence.
Range(seq) == {seq[k] : k \in DOMAIN seq}

Ascending(seq) == \A k \in 1 .. (Len(seq) - 1) : seq[k] < seq[k + 1]

\* C12: iterate returns false at the first invocation of the closure that
\* returns false and invokes the closure on no further bit; it returns
\* true only if every invocation returned true.
C12_IterateStopsAtFirstFalse ==
  /\ iter.refused # 0 =>
       /\ iter.pc = "done"
       /\ ~iter.ret
       /\ Len(iter.visited) = iter.refused
  /\ (iter.pc = "done" /\ iter.ret) => iter.refused = 0

\* The closure returned false at its second invocation or later, with set
\* bits of the range still ahead.
C12_Witness ==
  /\ iter.pc = "done"
  /\ iter.refused > 1
  /\ \E b \in iter.due : b > iter.offset /\ at(map, b)

\* The bits of the range the scan has gone past: up to the bit the closure
\* is about to be invoked on, to the bit it returned false on, or to the
\* end of the range.
Scanned ==
  {b \in iter.left .. (iter.right - 1) :
     CASE iter.pc = "do_bit" -> b < iter.offset
       [] iter.pc = "done" /\ ~iter.ret -> b <= iter.offset
       [] OTHER -> TRUE}

\* C13: the closure is invoked on bits in strictly ascending order (no
\* bit twice, whatever the closure edits at or left of the current bit),
\* and on exactly the bits gone past that are due: those set in the range
\* at the call, plus those right of the then current bit the closure has
\* set, minus those right of the then current bit it has cleared.
C13_ClosureSeesEditsAhead ==
  iter.pc # "idle" =>
    /\ Ascending(iter.visited)
    /\ Range(iter.visited) = iter.due \cap Scanned

\* A whole iteration that visited a bit that was clear at the call and
\* skipped a bit that was set at the call, after the closure changed the
\* bit it was invoked on.
C13_Witness ==
  /\ iter.pc = "done"
  /\ iter.ret
  /\ \E b \in Range(iter.visited) : b \notin iter.pre
  /\ \E b \in iter.pre : b \notin Range(iter.visited)
  /\ \E b \in Range(iter.visited) : ~at(map, b)

\* C14: with a closure that does not change the bitmap and always returns
\* true, iterate invokes the closure exactly once on each set bit of
\* [left, right), in strictly ascending order, and on no other bit.
C14_IterateVisitsSetBitsOnceInOrder ==
  (iter.pc = "done" /\ ~iter.mutated /\ iter.refused = 0) =>
    /\ iter.ret
    /\ Ascending(iter.visited)
    /\ Range(iter.visited) =
         {i \in iter.left .. (iter.right - 1) : i < size /\ at(map, i)}

\* A range that starts and ends inside words, with a set bit left of it in
\* its first word, a set bit right of it, a set storage bit past the size,
\* and set bits in two words of it.
C14_Witness ==
  /\ iter.pc = "done" /\ ~iter.mutated /\ iter.refused = 0
  /\ bit_in_word(iter.left) # 0 /\ at(map, iter.left - 1)
  /\ iter.right < size /\ at(map, iter.right)
  /\ ~TailClean(map, size)
  /\ \E b \in Range(iter.visited), c \in Range(iter.visited) :
        word_index(b) # word_index(c)

\* C15: for every bitmap state and every valid [beg, end), set_large_range,
\* clear_large_range and at_put_large_range leave the storage that
\* set_range, clear_range and at_put_range leave, on either side of the
\* small-range threshold.
C15_LargeRangeSameAsPlain ==
  /\ last.op = "set_large_range" =>
       map = set_range(last.pre_map, last.beg, last.end)
  /\ last.op = "clear_large_range" =>
       map = clear_range(last.pre_map, last.beg, last.end)
  /\ last.op = "at_put_large_range" =>
       map = at_put_range(last.pre_map, last.beg, last.end, last.value)

\* at_put_large_range has cleared a range past the threshold, with a
\* partial head and a partial tail, that held set bits.
C15_Witness ==
  /\ last.op = "at_put_large_range"
  /\ ~last.value
  /\ ~is_small_range_of_words(word_index_round_up(last.beg), word_index(last.end))
  /\ bit_in_word(last.beg) # 0
  /\ bit_in_word(last.end) # 0
  /\ \A i \in last.beg .. (last.end - 1) : at(last.pre_map, i)
  /\ at(map, last.beg - 1)

\* The table _pop_count_table points to is allocated, not freed, and has
\* every entry written.
TableBuilt(tb) ==
  /\ tb.ptr # NULL
  /\ tb.heap[tb.ptr].state = "live"
  /\ tb.heap[tb.ptr].filled = TableSize

\* C16: under any interleaving of init_pop_count_table() and
\* count_one_bits() calls, _pop_count_table once not NULL never changes;
\* a step frees a table only when it is the stepping thread's own and not
\* the published one; the published table is live and fully built; and a
\* thread reading the table in count_one_bits reads such a table.
C16_TablePublishedOnceNeverFreed ==
  [][/\ tab.ptr # NULL => tab'.ptr = tab.ptr
     /\ \A t \in Counters :
          (tab.heap[t].state # "freed" /\ tab'.heap[t].state = "freed")
            => /\ tab.pc[t] = "free"
               /\ tab'.pc[t] # "free"
               /\ tab'.ptr # t
     /\ tab'.ptr # NULL => TableBuilt(tab')
     /\ \A t \in Counters : tab'.pc[t] = "count" => TableBuilt(tab')]_vars

\* Every thread has built a table; one is published, the others are freed
\* by their threads, and a thread is reading the published table.
C16_Witness ==
  /\ tab.ptr # NULL
  /\ \A t \in Counters \ {tab.ptr} : tab.heap[t].state = "freed"
  /\ \E t \in Counters \ {tab.ptr} : tab.pc[t] = "count"

ResultOps ==
  {"set_union_with_result", "set_difference_with_result",
   "set_intersection_with_result"}

\* What the non-reporting operation that corresponds to op leaves.
PlainResult(op, m, o, sz) ==
  CASE op = "set_union_with_result" -> set_union(m, o, sz)
    [] op = "set_difference_with_result" -> set_difference(m, o, sz)
    [] op = "set_intersection_with_result" -> set_intersection(m, o, sz)

\* C17: set_union_with_result, set_intersection_with_result and
\* set_difference_with_result return true exactly when a bit of the
\* destination at an index < size changed, and leave the destination as
\* the non-reporting operation does.
C17_WithResultReportsChangeBelowSize ==
  last.op \in ResultOps =>
    /\ last.ret <=> (SetBits(map, size) # SetBits(last.pre_map, size))
    /\ map = PlainResult(last.op, last.pre_map, last.operand, size)

\* set_union_with_result returned false although the operand has storage
\* bits set past the size that the destination has not, in a tail word
\* that follows a whole word.
C17_Witness ==
  /\ last.op = "set_union_with_result"
  /\ ~last.ret
  /\ word_index(size) > 0
  /\ bit_in_word(size) # 0
  /\ SetBits(last.operand, size) # {}
  /\ OR(last.pre_map[word_index(size)], last.operand[word_index(size)])
       # last.pre_map[word_index(size)]

\* C18 (as claimed): when the allocation of the backing storage fails in
\* allocate or resize, the failure is reported to the caller, the bitmap
\* does not report a size > 0 with no storage, and it keeps its previous
\* size and bits.
C18_AllocationFailureSurfaced ==
  last.op \in {"resize_oom", "vm_exit"} =>
    /\ last.ret
    /\ size > 0 => map # NullMap
    /\ size = last.pre_size
    /\ map = last.pre_map

\* C19: from YoungOnly, a pause end that finds the occupancy over the
\* threshold leaves MarkingArmed, and one that does not leaves YoungOnly;
\* and after a concurrent mark completed
\* with no candidates the state is YoungOnly at once, and it is not Mixed
\* as long as no marking has been requested since.
C19_EmptyMarkReturnsToYoungOnly ==
  /\ (pol.op = "record_collection_pause_end" /\ pol.pre = "YoungOnly")
       => pol.state = IF pol.crossing THEN "MarkingArmed" ELSE "YoungOnly"
  /\ (pol.op = "record_concurrent_mark_cleanup_end" /\ pol.candidates = 0)
       => pol.state = "YoungOnly"
  /\ pol.empty_mark => pol.state = "YoungOnly"

\* A mark completed with no candidates after an earlier cycle of the run
\* went through a mixed phase, and a pause has ended since.
C19_Witness ==
  /\ pol.empty_mark
  /\ pol.cycles > 1
  /\ pol.op = "record_collection_pause_end"
  /\ pol.abandoned

MaxUnloadThreads == 2

UnloadThreads == 1 .. MaxUnloadThreads

\* The unloading cycles modelled.
MaxUnloadCycles == 2

\* unload() that purges right after unlink().
unload_next_without_handshake(step) ==
  CASE step = "do_unloading" -> "clean_weak_klass_links"
    [] step = "clean_weak_klass_links" -> "code_roots_unlink"
    [] step = "code_roots_unlink" -> "cleaning_end"
    [] step = "cleaning_end" -> "code_roots_purge"
    [] step = "handshake" -> "code_roots_purge"
    [] step = "code_roots_purge" -> "cldg_purge"
    [] step = "cldg_purge" -> "purge_exception_caches"
    [] step = "purge_exception_caches" -> "return"

\* The step that follows step in unload(): the calls of unlink() in their
\* order, Handshake::execute, the calls of purge() in their order.
unload_next(step) ==
  CASE step = "do_unloading" -> "clean_weak_klass_links"
    [] step = "clean_weak_klass_links" -> "code_roots_unlink"
    [] step = "code_roots_unlink" -> "cleaning_end"
    [] step = "cleaning_end" -> "handshake"
    [] step = "handshake" -> "code_roots_purge"
    [] step = "code_roots_purge" -> "cldg_purge"
    [] step = "cldg_purge" -> "purge_exception_caches"
    [] step = "purge_exception_caches" -> "return"

\* if (!is_evacuation_in_progress()) return; otherwise unlink() is entered.
unload_entry(evacuation) == IF ~evacuation THEN "return" ELSE "do_unloading"

\* u after the step it was about to take.
Stepped(u) == [u EXCEPT !.log = Append(@, u.pc), !.pc = unload_next(u.pc)]

UnloadStep(v) ==
  /\ unl' = v
  /\ UNCHANGED <<size, map, other, last, thr, iter, tab, pol, zh, cset, young>>

\* ShenandoahUnload::prepare(), at the safepoint that ends marking.
UnloadPrepare ==
  /\ unl.pc = "idle"
  /\ ~unl.cleaning
  /\ unl.cycle < MaxUnloadCycles
  /\ UnloadStep([unl EXCEPT !.cycle = @ + 1, !.cleaning = TRUE])

\* The collector starts or ends the evacuation.
SetEvacuationInProgress ==
  /\ unl.pc = "idle"
  /\ UnloadStep([unl EXCEPT !.evacuation = ~@])

\* unload() up to its test of is_evacuation_in_progress().
UnloadCall ==
  /\ unl.pc = "idle"
  /\ UnloadStep([unl EXCEPT !.pc = unload_entry(unl.evacuation),
                            !.log = <<>>, !.acked = {},
                            !.entered = <<unl.evacuation, unl.cleaning>>])

\* unlink(): SystemDictionary::do_unloading under ClassLoaderDataGraph_lock.
UnlinkDoUnloading ==
  /\ unl.pc = "do_unloading"
  /\ \E occurred \in BOOLEAN :
       UnloadStep([Stepped(unl) EXCEPT !.unloading_occurred = occurred])

UnlinkCleanWeakKlassLinks ==
  /\ unl.pc = "clean_weak_klass_links"
  /\ UnloadStep(Stepped(unl))

UnlinkCodeRoots ==
  /\ unl.pc = "code_roots_unlink"
  /\ UnloadStep(Stepped(unl))

\* unlink(): DependencyContext::cleaning_end(), its last statement.
UnlinkCleaningEnd ==
  /\ unl.pc = "cleaning_end"
  /\ UnloadStep([Stepped(unl) EXCEPT !.cleaning = FALSE])

\* A thread executes ShenandoahUnloadRendezvousClosure::do_thread.
HandshakeDoThread(t) ==
  /\ unl.pc = "handshake"
  /\ t \notin unl.acked
  /\ UnloadStep([unl EXCEPT !.acked = @ \cup {t}])

\* Handshake::execute(&cl) returns: every thread has executed the closure.
HandshakeExecuted ==
  /\ unl.pc = "handshake"
  /\ unl.acked = UnloadThreads
  /\ UnloadStep(Stepped(unl))

\* purge(): ShenandoahCodeRoots::purge.
PurgeCodeRoots ==
  /\ unl.pc = "code_roots_purge"
  /\ UnloadStep(Stepped(unl))

\* purge(): ClassLoaderDataGraph::purge.
PurgeClassLoaderDataGraph ==
  /\ unl.pc = "cldg_purge"
  /\ UnloadStep(Stepped(unl))

\* purge(): CodeCache::purge_exception_caches.
PurgeExceptionCaches ==
  /\ unl.pc = "purge_exception_caches"
  /\ UnloadStep(Stepped(unl))

UnloadReturn ==
  /\ unl.pc = "return"
  /\ UnloadStep([unl EXCEPT !.pc = "idle"])

InitUnload ==
  /\ size = 0
  /\ map = NullMap
  /\ other = NullMap
  /\ last = NoCall
  /\ thr = <<>>
  /\ iter = NoIterate
  /\ tab = NoTable
  /\ pol = NoPolicy
  /\ unl = NoUnload
  /\ zh = NoMetaCalls
  /\ cset = NoCSet
  /\ young = NoYoung

NextUnload ==
  \/ UnloadPrepare
  \/ SetEvacuationInProgress
  \/ UnloadCall
  \/ UnlinkDoUnloading
  \/ UnlinkCleanWeakKlassLinks
  \/ UnlinkCodeRoots
  \/ UnlinkCleaningEnd
  \/ \E t \in UnloadThreads : HandshakeDoThread(t)
  \/ HandshakeExecuted
  \/ PurgeCodeRoots
  \/ PurgeClassLoaderDataGraph
  \/ PurgeExceptionCaches
  \/ UnloadReturn

SpecUnload == InitUnload /\ [][NextUnload]_vars

(***************************************************************************)
(* ZCollectedHeap::satisfy_failed_metadata_allocation.  Any Java thread     *)
(* whose metadata allocation failed runs it; what the metaspace answers to  *)
(* an attempt is not decided here, so each attempt may fail or succeed.     *)
(***************************************************************************)

\* The threads that allocate metadata.
MaxCallers == 2

Callers == 1 .. MaxCallers

\* What an attempt returns: NULL or the address of the new block.
MetaWords == {NULL, 1, 2}

\* A thread outside the function.
NoMetaCall == [pc |-> "idle", result |-> NULL, log |-> <<>>]

\* The function carrying on after an attempt whatever it returned.
after_attempt_ignores_result(pc, result) ==
  CASE pc = "expand_1" -> "collect_sync"
    [] pc = "allocate" -> "expand_2"
    [] pc = "expand_2" -> "return"

\* if (result != NULL) return result; otherwise the next statement, which
\* after the last attempt is return NULL.
after_attempt(pc, result) ==
  IF result # NULL THEN "return"
  ELSE CASE pc = "expand_1" -> "collect_sync"
         [] pc = "allocate" -> "expand_2"
         [] pc = "expand_2" -> "return"

\* z after the attempt named step returned result.
Attempted(z, step, result) ==
  [z EXCEPT !.result = result,
            !.log = Append(@, [step |-> step, result |-> result]),
            !.pc = after_attempt(z.pc, result)]

MetaStep(t, z) ==
  /\ zh' = [zh EXCEPT ![t] = z]
  /\ UNCHANGED <<size, map, other, last, thr, iter, tab, pol, unl, cset, young>>

\* The function is entered.
SatisfyFailedMetadataAllocation(t) ==
  /\ zh[t].pc = "idle"
  /\ MetaStep(t, [NoMetaCall EXCEPT !.pc = "collect_async"])

\* collect(GCCause::_metadata_GC_threshold), and later
\* collect(GCCause::_metadata_GC_clear_soft_refs).
Collect(t) ==
  /\ zh[t].pc \in {"collect_async", "collect_sync"}
  /\ LET cause == IF zh[t].pc = "collect_async"
                    THEN "metadata_GC_threshold"
                    ELSE "metadata_GC_clear_soft_refs"
     IN MetaStep(t, [zh[t] EXCEPT
                       !.log = Append(@, [step |-> cause, result |-> NULL]),
                       !.pc = IF zh[t].pc = "collect_async"
                                THEN "expand_1" ELSE "allocate"])

\* result = metaspace_non_null()->expand_and_allocate(size, mdtype).
ExpandAndAllocate(t) ==
  /\ zh[t].pc \in {"expand_1", "expand_2"}
  /\ \E result \in MetaWords :
       MetaStep(t, Attempted(zh[t], "expand_and_allocate", result))

\* result = metaspace_non_null()->allocate(size, mdtype).
Allocate(t) ==
  /\ zh[t].pc = "allocate"
  /\ \E result \in MetaWords :
       MetaStep(t, Attempted(zh[t], "allocate", result))

\* return result, or return NULL.
SatisfyReturn(t) ==
  /\ zh[t].pc = "return"
  /\ MetaStep(t, [zh[t] EXCEPT !.pc = "idle"])

InitMeta ==
  /\ size = 0
  /\ map = NullMap
  /\ other = NullMap
  /\ last = NoCall
  /\ thr = <<>>
  /\ iter = NoIterate
  /\ tab = NoTable
  /\ pol = NoPolicy
  /\ unl = NoUnload
  /\ zh = [t \in Callers |-> NoMetaCall]
  /\ cset = NoCSet
  /\ young = NoYoung

NextMeta ==
  \E t \in Callers :
    \/ SatisfyFailedMetadataAllocation(t)
    \/ Collect(t)
    \/ ExpandAndAllocate(t)
    \/ Allocate(t)
    \/ SatisfyReturn(t)

SpecMeta == InitMeta /\ [][NextMeta]_vars

(***************************************************************************)
(* G1Policy: the choice of old regions for a mixed pause.  The candidates   *)
(* are given by their predicted times in ms, in the order of the list; a    *)
(* choice is the sequence of the positions chosen.                          *)
(***************************************************************************)

\* The candidates a list holds at most, and the times a region may take.
MaxCandidateList == 3

RegionTimes == {8, 10, 40}

\* The time left for the pause, in ms.
TimesRemaining == {0, 19, 25, 100}

\* The old regions a mixed pause takes at least and at most, and the
\* optional regions it takes at most.
MaxOldCSetLength == 3

MaxOptionalRegions == 2

\* optional_prediction_fraction() and optional_evacuation_fraction(), in
\* percent.
optional_prediction_percent == 20

optional_evacuation_percent == 75

\* The predicted time of the regions at the positions chosen.
RECURSIVE predicted_time_ms(_, _)
predicted_time_ms(costs, chosen) ==
  IF chosen = <<>> THEN 0
  ELSE costs[Head(chosen)] + predicted_time_ms(costs, Tail(chosen))

\* A mandatory pass that stops at the budget before the minimum is met.
RECURSIVE mandatory_pass_without_floor(_, _, _, _, _)
mandatory_pass_without_floor(costs, budget_ms, min_length, max_length, chosen) ==
  LET next == Len(chosen) + 1
  IN IF next > Len(costs) \/ Len(chosen) >= max_length THEN chosen
     ELSE IF predicted_time_ms(costs, chosen) + costs[next] <= budget_ms
       THEN mandatory_pass_without_floor(costs, budget_ms, min_length,
                                         max_length, Append(chosen, next))
       ELSE chosen

\* A mandatory pass that adds regions up to the maximum whatever they cost.
RECURSIVE mandatory_pass_ignores_budget(_, _, _, _, _)
mandatory_pass_ignores_budget(costs, budget_ms, min_length, max_length, chosen) ==
  LET next == Len(chosen) + 1
  IN IF next > Len(costs) \/ Len(chosen) >= max_length THEN chosen
     ELSE mandatory_pass_ignores_budget(costs, budget_ms, min_length,
                                        max_length, Append(chosen, next))

\* The mandatory pass: walk the candidates in order; stop at the end of the
\* list or at the maximum count; below the minimum count take the region
\* whatever it costs; otherwise take it while the accumulated time stays
\* within the budget.
RECURSIVE mandatory_pass(_, _, _, _, _)
mandatory_pass(costs, budget_ms, min_length, max_length, chosen) ==
  LET next == Len(chosen) + 1
  IN IF next > Len(costs) \/ Len(chosen) >= max_length THEN chosen
     ELSE IF \/ Len(chosen) < min_length
             \/ predicted_time_ms(costs, chosen) + costs[next] <= budget_ms
       THEN mandatory_pass(costs, budget_ms, min_length, max_length,
                           Append(chosen, next))
       ELSE chosen

\* The optional pass: from the candidate after the last one taken, take
\* regions in order, at most max_optional_regions of them, while their
\* accumulated time stays within optional_evacuation_fraction() of the time
\* remaining.
RECURSIVE calculate_optional_collection_set_regions(_, _, _, _, _)
calculate_optional_collection_set_regions(costs, taken, max_optional_regions, time_remaining_ms, chosen) ==
  LET next == taken + Len(chosen) + 1
      budget_ms == (time_remaining_ms * optional_evacuation_percent) \div 100
  IN IF next > Len(costs) \/ Len(chosen) >= max_optional_regions THEN chosen
     ELSE IF predicted_time_ms(costs, chosen) + costs[next] <= budget_ms
       THEN calculate_optional_collection_set_regions(
              costs, taken, max_optional_regions, time_remaining_ms,
              Append(chosen, next))
       ELSE chosen

\* calculate_old_collection_set_regions: the mandatory pass on the part of
\* the time not set aside by optional_prediction_fraction(), then the
\* optional pass on the time the mandatory regions leave.
calculate_old_collection_set_regions(costs, time_remaining_ms, min_length, max_length, max_optional_regions) ==
  LET budget_ms ==
        (time_remaining_ms * (100 - optional_prediction_percent)) \div 100
      initial == mandatory_pass(costs, budget_ms, min_length, max_length, <<>>)
      used == predicted_time_ms(costs, initial)
      left == IF used >= time_remaining_ms THEN 0
              ELSE time_remaining_ms - used
  IN [mandatory_budget_ms |-> budget_ms,
      initial_regions |-> initial,
      optional_regions |->
        calculate_optional_collection_set_regions(
          costs, Len(initial), max_optional_regions, left, <<>>),
      num_initial_regions |-> Len(initial),
      num_optional_regions |->
        Len(calculate_optional_collection_set_regions(
              costs, Len(initial), max_optional_regions, left, <<>>))]

\* The candidate lists: every list of up to MaxCandidateList region times.
CandidateLists ==
  UNION {[1 .. n -> RegionTimes] : n \in 0 .. MaxCandidateList}

\* A mixed pause chooses its old regions; one pause is followed.
CalculateOldCollectionSetRegions ==
  /\ cset = NoCSet
  /\ \E costs \in CandidateLists, time_remaining_ms \in TimesRemaining,
        min_length, max_length \in 0 .. MaxOldCSetLength,
        max_optional_regions \in 0 .. MaxOptionalRegions :
       cset' = [op |-> "calculate_old_collection_set_regions",
                candidates |-> costs,
                time_remaining_ms |-> time_remaining_ms,
                min_old_cset_length |-> min_length,
                max_old_cset_length |-> max_length,
                max_optional_regions |-> max_optional_regions,
                chosen |-> calculate_old_collection_set_regions(
                             costs, time_remaining_ms, min_length,
                             max_length, max_optional_regions)]
  /\ UNCHANGED <<size, map, other, last, thr, iter, tab, pol, unl, zh, young>>

NextCSet == CalculateOldCollectionSetRegions

SpecCSet == InitUnload /\ [][NextCSet]_vars

(***************************************************************************)
(* G1Policy: the young list target length.  Times are in ms, lengths in     *)
(* regions.                                                                 *)
(***************************************************************************)

\* The regions of the heap: no length searched or configured exceeds it.
MaxYoungLength == 10

\* The pause time goals, the base times predicted for a pause and the times
\* predicted per young region.
PauseTimeGoals == {20, 50}

BaseTimes == {10, 60}

YoungRegionTimes == {5, 7}

\* The percentage of the target by which the eden may grow while the GC
\* locker is active.
GCLockerEdenExpansionPercents == {0, 5}

\* predict_will_fit that leaves a margin: the time must stay under the goal.
predict_will_fit_under_goal(young_length, base_time_ms, region_time_ms, target_pause_time_ms) ==
  base_time_ms + region_time_ms * young_length < target_pause_time_ms

\* Whether young_length regions fit into the target pause time.
predict_will_fit(young_length, base_time_ms, region_time_ms, target_pause_time_ms) ==
  base_time_ms + region_time_ms * young_length <= target_pause_time_ms

\* The unbounded target: the search from max_length down for the largest
\* length that fits; 0 when none does.
RECURSIVE calculate_young_list_target_length(_, _, _, _)
calculate_young_list_target_length(base_time_ms, region_time_ms, target_pause_time_ms, max_length) ==
  IF max_length = 0 THEN 0
  ELSE IF predict_will_fit(max_length, base_time_ms, region_time_ms,
                           target_pause_time_ms)
    THEN max_length
    ELSE calculate_young_list_target_length(
           base_time_ms, region_time_ms, target_pause_time_ms, max_length - 1)

\* The bounded and the unbounded target, in this order: the unbounded one
\* brought down to the smaller of desired_max_length and the free regions,
\* then up to desired_min_length.
young_list_target_lengths(base_time_ms, region_time_ms, target_pause_time_ms, desired_min_length, desired_max_length, free_regions) ==
  LET unbounded == calculate_young_list_target_length(
                     base_time_ms, region_time_ms, target_pause_time_ms,
                     MaxYoungLength)
      upper == IF desired_max_length < free_regions
                 THEN desired_max_length ELSE free_regions
      capped == IF unbounded > upper THEN upper ELSE unbounded
      bounded == IF capped < desired_min_length
                   THEN desired_min_length ELSE capped
  IN <<bounded, unbounded>>

\* _young_list_max_length: the target plus the eden expansion allowed
\* while the GC locker is active, rounded up.
young_list_max_length(target_length, expansion_percent) ==
  target_length + (target_length * expansion_percent + 99) \div 100

\* update_young_list_max_and_target_length after a pause; one update is
\* followed.
UpdateYoungListMaxAndTargetLength ==
  /\ young = NoYoung
  /\ \E goal \in PauseTimeGoals, base \in BaseTimes,
        region \in YoungRegionTimes,
        desired_min, desired_max, free \in 0 .. MaxYoungLength,
        expansion \in GCLockerEdenExpansionPercents :
    LET lengths == young_list_target_lengths(base, region, goal, desired_min,
                                             desired_max, free)
    IN /\ desired_min <= desired_max
       /\ young' = [op |-> "update_young_list_max_and_target_length",
                    target_pause_time_ms |-> goal,
                    base_time_ms |-> base,
                    region_time_ms |-> region,
                    desired_min_length |-> desired_min,
                    desired_max_length |-> desired_max,
                    free_regions |-> free,
                    unbounded |-> lengths[2],
                    young_list_target_length |-> lengths[1],
                    young_list_max_length |->
                      young_list_max_length(lengths[1], expansion)]
  /\ UNCHANGED <<size, map, other, last, thr, iter, tab, pol, unl, zh, cset>>

NextYoung == UpdateYoungListMaxAndTargetLength

SpecYoung == InitUnload /\ [][NextYoung]_vars

\* C21: a marking abort leaves YoungOnly with no candidates, no marking
\* requested and the tracking abandoned, whatever the state before; an
\* abort right after leaves the controller as it is; and after an abort
\* the state is YoungOnly as long as no marking has been requested since.
C21_AbortReturnsToYoungOnly ==
  /\ pol.op = "record_full_collection_end" =>
       /\ Controller(pol) = <<"YoungOnly", FALSE, 0, 0, TRUE>>
       /\ Controller(record_full_collection_end(pol)) = Controller(pol)
  /\ pol.aborted => pol.state = "YoungOnly"

\* A mixed phase with candidates left and a pause behind it was aborted.
C21_Witness ==
  /\ pol.op = "record_full_collection_end"
  /\ pol.pre = "Mixed"
  /\ pol.before[3] > 1
  /\ pol.before[4] > 0
  /\ pol.aborted

IsPrefix(s, t) == Len(s) <= Len(t) /\ s = SubSeq(t, 1, Len(s))

\* The calls unlink() makes, the handshake, and the calls purge() makes.
UnlinkSteps ==
  <<"do_unloading", "clean_weak_klass_links", "code_roots_unlink",
    "cleaning_end">>

PurgeSteps == <<"code_roots_purge", "cldg_purge", "purge_exception_caches">>

\* C26: unload() entered with no evacuation in progress returns having done
\* nothing; entered during evacuation it takes the steps of unlink, then
\* the handshake, then the steps of purge, in that order and all of them
\* before it returns; no step of purge is taken, or about to be, before
\* every thread has executed the handshake; and the dependency-context
\* cleaning has been ended when the handshake starts.
C26_UnlinkHandshakePurge ==
  /\ IsPrefix(unl.log, UnlinkSteps \o <<"handshake">> \o PurgeSteps)
  /\ unl.pc = "return" =>
       IF unl.entered[1]
         THEN unl.log = UnlinkSteps \o <<"handshake">> \o PurgeSteps
         ELSE /\ unl.log = <<>>
              /\ unl.acked = {}
              /\ unl.cleaning = unl.entered[2]
  /\ (unl.pc \in Range(PurgeSteps) \/ Range(unl.log) \cap Range(PurgeSteps) # {}) =>
       /\ unl.acked = UnloadThreads
       /\ IsPrefix(UnlinkSteps \o <<"handshake">>, unl.log)
  /\ unl.pc = "handshake" =>
       /\ unl.log = UnlinkSteps
       /\ ~unl.cleaning

\* A call made during evacuation, with the cleaning started, has purged;
\* and so has a call before it.
C26_Witness ==
  /\ unl.pc = "return"
  /\ unl.entered = <<TRUE, TRUE>>
  /\ unl.cycle = 2
  /\ Len(unl.log) = 8
  /\ unl.acked = UnloadThreads

\* The statements of satisfy_failed_metadata_allocation in their order.
SatisfyOrder ==
  <<"metadata_GC_threshold", "expand_and_allocate",
    "metadata_GC_clear_soft_refs", "allocate", "expand_and_allocate">>

\* C27: what a call of satisfy_failed_metadata_allocation has done is an
\* initial part of: asynchronous GC request, expand-and-allocate,
\* synchronous GC request clearing soft references, allocate,
\* expand-and-allocate; every attempt but the last one made has failed; a
\* call that has not reached its return has seen no success; and the value
\* returned is that of the last attempt made, which is NULL only when all
\* five steps were taken.
C27_MetadataAllocationRetries ==
  \A t \in DOMAIN zh :
    LET z == zh[t]
        n == Len(z.log)
    IN /\ IsPrefix([i \in 1 .. n |-> z.log[i].step], SatisfyOrder)
       /\ \A i \in 1 .. n - 1 : z.log[i].result = NULL
       /\ z.pc \notin {"idle", "return"} =>
            /\ z.result = NULL
            /\ n > 0 => z.log[n].result = NULL
       /\ z.pc = "return" =>
            /\ n >= 2
            /\ z.result = z.log[n].result
            /\ z.log[n].step \in {"expand_and_allocate", "allocate"}
            /\ z.result = NULL => n = 5

\* One thread returns NULL after all five steps while another returns the
\* block that allocate gave it after the synchronous GC.
C27_Witness ==
  \E t, u \in DOMAIN zh :
    /\ zh[t].pc = "return" /\ zh[t].result = NULL /\ Len(zh[t].log) = 5
    /\ zh[u].pc = "return" /\ zh[u].result # NULL /\ Len(zh[u].log) = 4

\* The predicted time of the first n candidates.
RECURSIVE PrefixTime(_, _)
PrefixTime(costs, n) == IF n = 0 THEN 0 ELSE PrefixTime(costs, n - 1) + costs[n]

\* 1, 2, ... n.
Upto(n) == [i \in 1 .. n |-> i]

Chosen == cset.op = "calculate_old_collection_set_regions"

\* C23: the mandatory regions are the first m candidates, with m at most
\* the maximum; every one of them beyond the minimum count kept the
\* accumulated time within the mandatory budget; and when the pass stopped
\* short of the list and of the maximum, the minimum count was met and the
\* next candidate would have exceeded the budget.  For the candidates 10,
\* 8, 40 with minimum 1 and a maximum of 2 or more, a budget of 15 chooses
\* the first region only and a budget of 20 the first two.
C23_MandatoryPassTakesPrefix ==
  Chosen =>
    LET costs == cset.candidates
        m == cset.chosen.num_initial_regions
        budget == cset.chosen.mandatory_budget_ms
    IN /\ cset.chosen.initial_regions = Upto(m)
       /\ m <= Len(costs)
       /\ m <= cset.max_old_cset_length
       /\ \A k \in 1 .. m :
            k > cset.min_old_cset_length => PrefixTime(costs, k) <= budget
       /\ (m < Len(costs) /\ m < cset.max_old_cset_length) =>
            /\ m >= cset.min_old_cset_length
            /\ PrefixTime(costs, m + 1) > budget
       /\ ( /\ costs = <<10, 8, 40>>
            /\ cset.min_old_cset_length = 1
            /\ cset.max_old_cset_length >= 2 ) =>
            /\ budget = 15 => cset.chosen.initial_regions = <<1>>
            /\ budget = 20 => cset.chosen.initial_regions = <<1, 2>>

\* The candidates 10, 8, 40 with minimum 1, no binding maximum and a
\* mandatory budget of 20.
C23_Witness ==
  /\ Chosen
  /\ cset.candidates = <<10, 8, 40>>
  /\ cset.min_old_cset_length = 1
  /\ cset.max_old_cset_length = 3
  /\ cset.chosen.mandatory_budget_ms = 20
  /\ cset.chosen.num_initial_regions = 2

Min(a, b) == IF a < b THEN a ELSE b

Max(a, b) == IF a > b THEN a ELSE b

\* C24: with min <= max, the mandatory count is at least the smaller of
\* the minimum and the number of candidates, whatever the budget, and at
\* most the maximum; mandatory and optional counts together are at most
\* the number of candidates; and the optional regions are the candidates
\* that follow the mandatory ones, in the order of the list.
C24_CountsWithinBounds ==
  (Chosen /\ cset.min_old_cset_length <= cset.max_old_cset_length) =>
    LET n == Len(cset.candidates)
        m == cset.chosen.num_initial_regions
        o == cset.chosen.num_optional_regions
    IN /\ Min(cset.min_old_cset_length, n) <= m
       /\ m <= cset.max_old_cset_length
       /\ m + o <= n
       /\ m = Len(cset.chosen.initial_regions)
       /\ cset.chosen.optional_regions = [i \in 1 .. o |-> m + i]

\* The minimum count was taken although it costs more than the mandatory
\* budget, and a candidate is left.
C24_Witness ==
  /\ Chosen
  /\ cset.min_old_cset_length = 2
  /\ cset.max_old_cset_length = 3
  /\ cset.chosen.num_initial_regions = 2
  /\ Len(cset.candidates) = 3
  /\ cset.chosen.mandatory_budget_ms > 0
  /\ PrefixTime(cset.candidates, 2) > cset.chosen.mandatory_budget_ms

Updated == young.op = "update_young_list_max_and_target_length"

\* The young.unbounded regions, and not one more, fit into the goal.
LargestFit ==
  /\ \/ young.unbounded = 0
     \/ young.base_time_ms + young.region_time_ms * young.unbounded
          <= young.target_pause_time_ms
  /\ young.base_time_ms + young.region_time_ms * (young.unbounded + 1)
       > young.target_pause_time_ms

\* C25: the unbounded target is the largest length whose predicted time is
\* within the pause time goal; when desired_min_length is at most the
\* smaller of desired_max_length and the free regions, the bounded target
\* is the unbounded one brought into that interval; a goal of 50 with base
\* 10 and 5 per region gives an unbounded target of 8, and with
\* desired_max_length 6 a bounded target of 6; and the maximum young list
\* length is at least the bounded target.
C25_YoungTargetLengths ==
  Updated =>
    LET lo == young.desired_min_length
        hi == Min(young.desired_max_length, young.free_regions)
        fits == young.base_time_ms + young.region_time_ms * young.unbounded
                  <= young.target_pause_time_ms
    IN /\ young.unbounded < MaxYoungLength => LargestFit
       /\ young.unbounded = MaxYoungLength => fits
       /\ lo <= hi =>
            young.young_list_target_length = Max(lo, Min(young.unbounded, hi))
       /\ ( /\ young.target_pause_time_ms = 50
            /\ young.base_time_ms = 10
            /\ young.region_time_ms = 5 ) =>
            /\ young.unbounded = 8
            /\ (young.desired_max_length = 6 /\ lo <= hi /\ hi = 6) =>
                 young.young_list_target_length = 6
       /\ young.young_list_max_length >= young.young_list_target_length

\* Goal 50, base 10, 5 per region, desired_max_length 6 and free regions
\* to spare.
C25_Witness ==
  /\ Updated
  /\ young.target_pause_time_ms = 50
  /\ young.base_time_ms = 10
  /\ young.region_time_ms = 5
  /\ young.desired_min_length = 2
  /\ young.desired_max_length = 6
  /\ young.free_regions = 9
  /\ young.unbounded = 8
  /\ young.young_list_target_length = 6
  /\ young.young_list_max_length = 7

PlainRangeOps == {"set_range", "clear_range", "par_at_put_range"}

LargeRangeOps ==
  {"set_large_range", "clear_large_range", "par_at_put_large_range"}

\* The words the last call touched.
Accesses ==
  IF last.op \in LargeRangeOps THEN large_range_accesses(last.beg, last.end)
  ELSE range_accesses(last.beg, last.end)

\* C28: a range write on a valid range touches only words of the storage,
\* and every word it changed is one it touched; on an empty range it
\* touches no word and leaves the bitmap as it was.
C28_RangeWritesStayInStorage ==
  last.op \in PlainRangeOps \cup LargeRangeOps =>
    /\ Accesses \subseteq DOMAIN last.pre_map
    /\ DOMAIN map = DOMAIN last.pre_map
    /\ \A i \in DOMAIN map : map[i] # last.pre_map[i] => i \in Accesses
    /\ last.beg = last.end =>
         /\ Accesses = {}
         /\ map = last.pre_map

\* A large range with a partial head word that ends at the size, the size
\* being a multiple of the word width.
C28_Witness ==
  /\ last.op = "par_at_put_large_range"
  /\ last.end = size
  /\ size = 3 * BitsPerWord
  /\ last.beg = 1
  /\ ~is_small_range_of_words(word_index_round_up(last.beg),
                              word_index(last.end))
  /\ map # last.pre_map

AlgebraOps ==
  {"set_union", "set_intersection", "set_difference", "set_from",
   "set_union_with_result", "set_difference_with_result",
   "set_intersection_with_result"}

\* C29: a set-algebra operation leaves the storage of the destination the
\* length it had and every storage bit at a position >= size as it was, and
\* leaves the operand as it was passed; and after set_from the destination
\* is_same as the operand.
C29_AlgebraFrame ==
  last.op \in AlgebraOps =>
    /\ DOMAIN map = DOMAIN last.pre_map
    /\ \A bit \in StorageBits(map) :
         bit >= size => at(map, bit) = at(last.pre_map, bit)
    /\ other = last.operand
    /\ last.op = "set_from" => is_same(map, other, size)

\* set_from on a size that is not a multiple of the word width, the two
\* bitmaps differing below the size and in the bits past it, which stay.
C29_Witness ==
  /\ last.op = "set_from"
  /\ bit_in_word(size) # 0
  /\ size > BitsPerWord
  /\ \E bit \in StorageBits(map) :
       bit >= size /\ at(map, bit) /\ ~at(other, bit)
  /\ \E bit \in 0 .. size - 1 : at(map, bit) # at(last.pre_map, bit)

=============================================================================
